---- MODULE Spec2Model ----
(***************************************************************************)
(* A model of the subscription/dispatch engine of @kz/patterns:            *)
(* TBaseObservable / TAbstractObserver / TSubscription (observer channel), *)
(* TBasePublisher (pub/sub channel) and TBaseMediator /                    *)
(* TAbstractParticipant (mediator).                                        *)
(*                                                                         *)
(* Execution is single-threaded and synchronous, so one public call is one *)
(* atomic action.  The body of every method is a pure operator over a      *)
(* "machine state" record st = [obs, med, sub, log]:                       *)
(*   obs[e]  the `observers` array of emitter e                            *)
(*   med[p]  the `mediators` array of participant p                        *)
(*   sub[o]  the `subscription` field of a TAbstractObserver               *)
(*   log     the receiver callbacks invoked so far by the running call     *)
(*   throws  the receivers whose next() raises during the running call     *)
(*   fault   TRUE once a callback has raised: the exception propagates and *)
(*           every enclosing loop is abandoned                             *)
(* Operators that return a value return [st |-> ..., ret |-> ...].         *)
(***************************************************************************)
EXTENDS Integers, Sequences, FiniteSets, TLC

VARIABLES observers, mediators, subscription, issued, calls, lastOp, fault,
          heap, lastCall, awaiting, running

vars == <<observers, mediators, subscription, issued, calls, lastOp, fault, heap, lastCall,
          awaiting, running>>

\* The variables of the notification channels and of the dispose module.
channelVars == <<observers, mediators, subscription, issued, calls, lastOp, fault>>

(***************************************************************************)
(* Bounds and universes                                                    *)
(***************************************************************************)
\* TBaseObservable.subscribe never refuses a receiver; the model stops
\* subscribing once a collection holds MaxLen entries.
MaxLen == 3
\* At most MaxUnsub receivers call this.unsubscribe() from their callback
\* during one delivery pass.
MaxUnsub == 1

\* At most MaxThrow receivers raise from next() during one delivery pass.
MaxThrow == 1
\* A pass that returns leaves a collection of at most MaxArray entries.
MaxArray == 5
\* The call stack holds MaxStack nested subscribe frames; one more raises
\* RangeError (maximum call stack size exceeded).
MaxStack == 6
\* At most MaxAwait calls of usingAsync / useAsync wait for their callback
\* at the same time.
MaxAwait == 1

Observables == {"O", "O2"}
\* The observable of the one-observable scenarios.
ChannelObservables == {"O"}
Mediators == {"M", "M2"}
\* The mediator on which every kind of receiver is explored.
RoutingMediators == {"M"}
Emitters == Observables \cup Mediators

\* Receivers of the observer channel: subclasses of TAbstractObserver.
Trackers == {"r1", "r2", "r3"}
\* Receivers of the mediator: a plain observer, a subscriber, two participants.
PlainObservers == {"o1"}
Subscribers == {"s1"}
Participants == {"p1", "p2"}
MedReceivers == PlainObservers \cup Subscribers \cup Participants
Receivers == Trackers \cup MedReceivers
\* Objects that carry TAbstractObserver's `subscription` field.
AbstractObservers == Trackers \cup PlainObservers \cup Participants

Values == {"v1", "v2"}
TopicKeys == {"A", "B", "C"}
Payloads == {"x"}
Errors == {"err"}
\* A sender that is no participant (a direct call of mediator.next).
ExternalSender == "ext"

(***************************************************************************)
(* Structural attributes of receivers                                      *)
(***************************************************************************)
\* 'topics' in observer
HasTopics(r) == r \in Subscribers \cup Participants \cup Mediators

\* 'participantId' in observer
HasParticipantId(r) == r \in Participants

\* 'subscribe' in observer && 'publish' in observer
HasSubscribeAndPublish(r) == r \in Participants \cup Mediators

\* The `topics` array given to the constructor (a mediator's is []).
TopicsOf(r) ==
  CASE r = "s1" -> <<"A", "B">>
    [] r = "p1" -> <<"A", "B">>
    [] r = "p2" -> <<"A">>
    [] OTHER -> <<>>

\* this.participantId = Symbol('participantId'): unique per participant.
ParticipantIdOf(p) ==
  CASE p = "p1" -> "id1"
    [] p = "p2" -> "id2"
    [] OTHER -> "undefined"

Senders == {ParticipantIdOf(p) : p \in Participants} \cup {ExternalSender}

(***************************************************************************)
(* Array helpers (Array.prototype.includes / indexOf / splice / push)      *)
(***************************************************************************)
Includes(s, x) == \E i \in 1..Len(s) : s[i] = x

\* 0-based index of the first occurrence, -1 when absent.
IndexOf(s, x) ==
  IF Includes(s, x)
    THEN (CHOOSE i \in 1..Len(s) : s[i] = x /\ \A j \in 1..(i - 1) : s[j] # x) - 1
    ELSE -1

\* s.splice(index, 1) with a 0-based index.
Splice1(s, index) ==
  [i \in 1..(Len(s) - 1) |-> IF i <= index THEN s[i] ELSE s[i + 1]]

Push(s, x) == Append(s, x)

(***************************************************************************)
(* Disposable handles                                                      *)
(*   Sub(owner, item): new TSubscription(owner's array, item); the array   *)
(*     is an emitter's `observers` or a participant's `mediators`.         *)
(*   Composite(local, remote): the object literal of                       *)
(*     TBaseMediator.subscribe; remote is always Sub(item, owner) of the   *)
(*     local half, so the record stores the local half only.               *)
(***************************************************************************)
None == [kind |-> "none", owner |-> "-", item |-> "-"]

Sub(owner, item) == [kind |-> "sub", owner |-> owner, item |-> item]

Composite(local, remote) ==
  [kind |-> "composite", owner |-> local.owner, item |-> local.item]

LocalOf(h) == Sub(h.owner, h.item)

RemoteOf(h) == Sub(h.item, h.owner)

\* The array a TSubscription references.
ArrayOf(st, owner) == IF owner \in Emitters THEN st.obs[owner] ELSE st.med[owner]

WithArray(st, owner, s) ==
  IF owner \in Emitters
    THEN [st EXCEPT !.obs[owner] = s]
    ELSE [st EXCEPT !.med[owner] = s]

\* Mutant: isDisposed by membership of the own receiver.
TSubscription_isDisposed_membership(st, h) == ~Includes(ArrayOf(st, h.owner), h.item)

\* TSubscription.isDisposed: !observers.length
TSubscription_isDisposed(st, h) == Len(ArrayOf(st, h.owner)) = 0

\* TSubscription.dispose: indexOf, then splice when found
\* Mutant: splice(index) without a count removes the entries after it too.
TSubscription_dispose_spliceToEnd(st, h) ==
  LET arr == ArrayOf(st, h.owner)
      index == IndexOf(arr, h.item)
  IN IF index >= 0 THEN WithArray(st, h.owner, SubSeq(arr, 1, index)) ELSE st

TSubscription_dispose(st, h) ==
  LET arr == ArrayOf(st, h.owner)
      index == IndexOf(arr, h.item)
  IN IF index >= 0 THEN WithArray(st, h.owner, Splice1(arr, index)) ELSE st

\* Mutant: the composite reports the mediator-side subscription only.
IsDisposed_localOnly(st, h) == TSubscription_isDisposed(st, LocalOf(h))

\* isDisposed of any disposable handed out by subscribe
IsDisposed(st, h) ==
  IF h.kind = "composite"
    THEN TSubscription_isDisposed(st, LocalOf(h)) /\ TSubscription_isDisposed(st, RemoteOf(h))
    ELSE TSubscription_isDisposed(st, h)

\* Mutant: every disposable revokes both directions of the link.
DisposeHandle_both(st, h) ==
  IF h.kind = "composite" \/ h.owner \notin Emitters
    THEN TSubscription_dispose(TSubscription_dispose(st, Sub(h.owner, h.item)), Sub(h.item, h.owner))
    ELSE TSubscription_dispose(st, h)

\* dispose() of any disposable handed out by subscribe
DisposeHandle(st, h) ==
  IF h.kind = "composite"
    THEN TSubscription_dispose(TSubscription_dispose(st, LocalOf(h)), RemoteOf(h))
    ELSE TSubscription_dispose(st, h)

\* A call that needs a stack frame when MaxStack frames are in use raises
\* RangeError and returns nothing.
StackOverflow(st) == st.depth >= MaxStack
Raised(st) == [st |-> [st EXCEPT !.fault = TRUE], ret |-> None]
\* The state in the frame of the callee.
Enter(st) == [st EXCEPT !.depth = @ + 1]
\* The state back in the frame of the caller.
Leave(st) == [st EXCEPT !.depth = @ - 1]
\* The value of a call whose body evaluated to res: nothing when an
\* exception is unwinding.
Return(res) == [st |-> Leave(res.st), ret |-> IF res.st.fault THEN None ELSE res.ret]

(***************************************************************************)
(* Receiver side: TAbstractObserver                                        *)
(***************************************************************************)
Entry(r, kind, arg) == [rcv |-> r, kind |-> kind, arg |-> arg]

Logged(st, r, kind, arg) == [st EXCEPT !.log = Append(st.log, Entry(r, kind, arg))]

\* TAbstractObserver.unsubscribe
TAbstractObserver_unsubscribe(st, r) ==
  IF r \in AbstractObservers /\ st.sub[r] # None
    THEN DisposeHandle(st, st.sub[r])
    ELSE st

\* TAbstractObserver.complete (the default): this.unsubscribe()
TAbstractObserver_complete(st, r) ==
  TAbstractObserver_unsubscribe(Logged(st, r, "complete", <<>>), r)

\* Mutant: a receiver that is in the collection already is not pushed again.
TBaseObservable_subscribe_dedup(st, e, r) ==
  [st |-> IF Includes(st.obs[e], r) THEN st ELSE [st EXCEPT !.obs[e] = Push(st.obs[e], r)],
   ret |-> Sub(e, r)]

\* TBaseObservable.subscribe: push, no duplicate check
TBaseObservable_subscribe(st, e, r) ==
  [st |-> [st EXCEPT !.obs[e] = Push(st.obs[e], r)], ret |-> Sub(e, r)]

\* A callback that calls e.subscribe(r)
SubscribeInCallback(st, e, r) == TBaseObservable_subscribe(st, e, r).st

\* next(value) of a concrete receiver: abstract in the library.  The
\* receivers in `unsub` call this.unsubscribe() from the callback.
\* The receivers in st.throws raise from the callback.  A receiver named
\* in st.removes disposes a subscription from the callback, one named in
\* st.adds subscribes a receiver to an observable from it.
Receiver_next(st, r, value, unsub) ==
  LET st1 == Logged(st, r, "next", value)
      st2 == IF r \in unsub THEN TAbstractObserver_unsubscribe(st1, r) ELSE st1
      mine == {k \in st.removes : k.by = r}
      st3 == IF mine # {} THEN DisposeHandle(st2, (CHOOSE k \in mine : TRUE).h) ELSE st2
      more == {k \in st.adds : k.by = r}
  IN IF r \in st.throws
       THEN [st1 EXCEPT !.fault = TRUE]
       ELSE IF more # {}
              THEN LET k == CHOOSE k \in more : TRUE IN SubscribeInCallback(st3, k.e, k.r)
              ELSE st3

\* error(error) of a concrete receiver: abstract in the library.
Receiver_error(st, r, error) == Logged(st, r, "error", error)

(***************************************************************************)
(* Emitter side: TBaseObservable                                           *)
(***************************************************************************)
\* The next of receiver r subscribes r itself to e.  A pass of e that visits
\* such a receiver appends an entry at every visit of it and visits every
\* appended entry: it never reaches the end of the array.
SelfAdding(st, e, r) == [by |-> r, e |-> e, r |-> r] \in st.adds

\* The pass over e is about to visit a receiver that subscribes itself
\* again at every visit, keeps its entries, and no entry still to visit
\* raises: from here the loop visits and pushes without end.  Nothing is
\* raised and the call does not return; the engine ends the process when
\* the array cannot grow any more (st.abort).
Endless(st, e, i, unsub) ==
  LET r == st.obs[e][i + 1]
  IN /\ SelfAdding(st, e, r)
     /\ r \notin unsub
     /\ st.removes = {}
     /\ \A j \in (i + 1)..Len(st.obs[e]) : st.obs[e][j] \notin st.throws

\* Mutant: an exception of a callback is swallowed and the pass goes on.
RECURSIVE PublishLoop_catch(_, _, _, _, _)
PublishLoop_catch(st, e, i, value, unsub) ==
  IF st.abort \/ i >= Len(st.obs[e])
    THEN st
    ELSE IF Endless(st, e, i, unsub) THEN [st EXCEPT !.abort = TRUE]
    ELSE PublishLoop_catch(Receiver_next(st, st.obs[e][i + 1], value, unsub), e, i + 1, value, unsub)

\* for (const observer of observers) observer.next(value): the array
\* iterator reads the live array and its live length at every step; an
\* exception of a callback leaves the loop.
RECURSIVE PublishLoop(_, _, _, _, _)
PublishLoop(st, e, i, value, unsub) ==
  IF st.fault \/ st.abort \/ i >= Len(st.obs[e])
    THEN st
    ELSE IF Endless(st, e, i, unsub) THEN [st EXCEPT !.abort = TRUE]
    ELSE PublishLoop(Receiver_next(st, st.obs[e][i + 1], value, unsub), e, i + 1, value, unsub)

\* Mutant: the pass starts at the second entry.
TBaseObservable_publish_fromSecond(st, e, value, unsub) == PublishLoop(st, e, 1, value, unsub)

\* TBaseObservable.publish
TBaseObservable_publish(st, e, value, unsub) == PublishLoop(st, e, 0, value, unsub)

\* for (const observer of observers) observer.error(error)
RECURSIVE ErrorLoop(_, _, _, _)
ErrorLoop(st, e, i, error) ==
  IF i >= Len(st.obs[e])
    THEN st
    ELSE ErrorLoop(Receiver_error(st, st.obs[e][i + 1], error), e, i + 1, error)

\* TBaseObservable.onError (protected: called by the emitter's own code)
TBaseObservable_onError(st, e, error) == ErrorLoop(st, e, 0, error)

RECURSIVE TBaseObservable_complete(_, _)

\* observer.complete(), dispatched on the class of the receiver: a mediator
\* inherits complete() from TBaseObservable, every other receiver has the
\* one of TAbstractObserver.
Receiver_complete(st, r) ==
  IF r \in Mediators
    THEN TBaseObservable_complete(Logged(st, r, "complete", <<>>), r)
    ELSE TAbstractObserver_complete(st, r)

\* for (const observer of observers) observer.complete(); an exception
\* leaves the loop.
RECURSIVE CompleteLoop(_, _, _)
CompleteLoop(st, e, i) ==
  IF st.fault \/ i >= Len(st.obs[e])
    THEN st
    ELSE CompleteLoop(Receiver_complete(st, st.obs[e][i + 1]), e, i + 1)

\* TBaseObservable.complete: notify, then observers.length = 0 (not reached
\* when the loop raised)
TBaseObservable_complete(st, e) ==
  IF StackOverflow(st)
    THEN [st EXCEPT !.fault = TRUE]
    ELSE LET st1 == CompleteLoop(Enter(st), e, 0)
         IN Leave(IF st1.fault THEN st1 ELSE [st1 EXCEPT !.obs[e] = <<>>])

(***************************************************************************)
(* TBasePublisher (pub/sub channel)                                        *)
(***************************************************************************)
\* Mutant: the topic filter of the receiver is ignored.
PublisherVisit_noFilter(st, observer, value, unsub) == Receiver_next(st, observer, value, unsub)

\* One step of the publisher's fan-out: a receiver that exposes a topic
\* filter gets the pair only when the topic is in its filter.
PublisherVisit(st, observer, value, unsub) ==
  IF HasTopics(observer) /\ ~Includes(TopicsOf(observer), value[1])
    THEN st
    ELSE Receiver_next(st, observer, value, unsub)

RECURSIVE PublisherLoop(_, _, _, _, _)
PublisherLoop(st, e, i, value, unsub) ==
  IF st.fault \/ i >= Len(st.obs[e])
    THEN st
    ELSE PublisherLoop(PublisherVisit(st, st.obs[e][i + 1], value, unsub), e, i + 1, value, unsub)

\* TBasePublisher.publish([topic, payload])
TBasePublisher_publish(st, e, value, unsub) == PublisherLoop(st, e, 0, value, unsub)

(***************************************************************************)
(* TBaseMediator and TAbstractParticipant                                  *)
(***************************************************************************)
\* Mutant: no comparison of participantId with the sender.
MediatorVisit_echo(st, observer, value, unsub) ==
  IF ~HasTopics(observer) \/ Includes(TopicsOf(observer), value[2])
    THEN Receiver_next(st, observer, <<value[2], value[3]>>, unsub)
    ELSE st

\* Mutant: a subscriber is served like a plain observer.
MediatorVisit_noTopics(st, observer, value, unsub) ==
  IF HasParticipantId(observer)
       /\ ~(Includes(TopicsOf(observer), value[2]) /\ ParticipantIdOf(observer) # value[1])
    THEN st
    ELSE Receiver_next(st, observer, <<value[2], value[3]>>, unsub)

\* The callback of observers.forEach in TBaseMediator.next
MediatorVisit(st, observer, value, unsub) ==
  LET sender == value[1]
      topic == value[2]
      message == value[3]
  IN IF ~HasTopics(observer)
       THEN Receiver_next(st, observer, <<topic, message>>, unsub)
       ELSE IF ~HasParticipantId(observer)
         THEN IF Includes(TopicsOf(observer), topic)
                THEN Receiver_next(st, observer, <<topic, message>>, unsub)
                ELSE st
         ELSE IF Includes(TopicsOf(observer), topic) /\ ParticipantIdOf(observer) # sender
                THEN Receiver_next(st, observer, <<topic, message>>, unsub)
                ELSE st

\* Array.prototype.forEach: the length is read once, before the first
\* callback; an index that is no longer in the array is skipped.
RECURSIVE MediatorNextLoop(_, _, _, _, _, _)
MediatorNextLoop(st, m, k, len, value, unsub) ==
  IF st.fault \/ k >= len
    THEN st
    ELSE IF k >= Len(st.obs[m])
      THEN MediatorNextLoop(st, m, k + 1, len, value, unsub)
      ELSE MediatorNextLoop(MediatorVisit(st, st.obs[m][k + 1], value, unsub),
                            m, k + 1, len, value, unsub)

\* Mutant: the mediator applies its own (empty) topics filter to what it is given.
TBaseMediator_next_ownTopics(st, m, value, unsub) ==
  IF Includes(TopicsOf(m), value[2])
    THEN MediatorNextLoop(Logged(st, m, "next", value), m, 0, Len(st.obs[m]), value, unsub)
    ELSE Logged(st, m, "next", value)

\* TBaseMediator.next([sender, topic, message])
TBaseMediator_next(st, m, value, unsub) ==
  MediatorNextLoop(Logged(st, m, "next", value), m, 0, Len(st.obs[m]), value, unsub)

\* Mutant: the mediator fans the error out like onError.
TBaseMediator_error_broadcast(st, m, error) == TBaseObservable_onError(st, m, error)

\* TBaseMediator.error: console.error(error), no receiver involved
TBaseMediator_error(st, m, error) == st

RECURSIVE TBaseMediator_subscribe(_, _, _)
RECURSIVE TAbstractParticipant_subscribe(_, _, _)

\* participant.subscribe(mediator), dispatched on the class of the object
\* that passed the 'subscribe' in observer && 'publish' in observer test
Participant_subscribe(st, x, m) ==
  IF x \in Mediators THEN TBaseMediator_subscribe(st, x, m)
                     ELSE TAbstractParticipant_subscribe(st, x, m)

\* Mutant: no includes() check before the push.
TBaseMediator_subscribe_noDedup(st, m, observer) ==
  IF StackOverflow(st)
    THEN Raised(st)
    ELSE LET st1 == [Enter(st) EXCEPT !.obs[m] = Push(st.obs[m], observer)]
         IN Return(IF HasSubscribeAndPublish(observer)
                     THEN Participant_subscribe(st1, observer, m)
                     ELSE [st |-> st1, ret |-> Sub(m, observer)])

\* TBaseMediator.subscribe
TBaseMediator_subscribe(st, m, observer) ==
  IF StackOverflow(st)
    THEN Raised(st)
    ELSE LET st0 == Enter(st)
         IN Return(
              IF ~Includes(st0.obs[m], observer)
                THEN LET st1 == [st0 EXCEPT !.obs[m] = Push(st0.obs[m], observer)]
                     IN IF HasSubscribeAndPublish(observer)
                          THEN Participant_subscribe(st1, observer, m)
                          ELSE [st |-> st1, ret |-> Sub(m, observer)]
                ELSE IF HasSubscribeAndPublish(observer)
                  THEN LET res == Participant_subscribe(st0, observer, m)
                       IN [st |-> res.st, ret |-> Composite(Sub(m, observer), res.ret)]
                  ELSE [st |-> st0, ret |-> Sub(m, observer)])

\* Mutant: the participant does not register itself with the mediator.
TAbstractParticipant_subscribe_noBackLink(st, p, m) ==
  IF ~Includes(st.med[p], m)
    THEN [st |-> [st EXCEPT !.med[p] = Push(st.med[p], m)], ret |-> Sub(p, m)]
    ELSE [st |-> st, ret |-> Sub(p, m)]

\* TAbstractParticipant.subscribe
TAbstractParticipant_subscribe(st, p, m) ==
  IF StackOverflow(st)
    THEN Raised(st)
    ELSE LET st0 == Enter(st)
         IN Return(
              IF ~Includes(st0.med[p], m)
                THEN LET st1 == [st0 EXCEPT !.med[p] = Push(st0.med[p], m)]
                         res == TBaseMediator_subscribe(st1, m, p)
                     IN [st |-> res.st, ret |-> Sub(p, m)]
                ELSE [st |-> st0, ret |-> Sub(p, m)])

\* mediators.forEach((mediator) => mediator.next([participantId, ...message]))
RECURSIVE ParticipantPublishLoop(_, _, _, _, _, _)
ParticipantPublishLoop(st, p, k, len, message, unsub) ==
  IF st.fault \/ k >= len
    THEN st
    ELSE IF k >= Len(st.med[p])
      THEN ParticipantPublishLoop(st, p, k + 1, len, message, unsub)
      ELSE ParticipantPublishLoop(
             TBaseMediator_next(st, st.med[p][k + 1], <<ParticipantIdOf(p)>> \o message, unsub),
             p, k + 1, len, message, unsub)

\* Mutant: only the first tracked mediator is notified.
TAbstractParticipant_publish_firstOnly(st, p, message, unsub) ==
  ParticipantPublishLoop(st, p, 0, IF Len(st.med[p]) > 1 THEN 1 ELSE Len(st.med[p]), message, unsub)

\* TAbstractParticipant.publish([topic, payload])
TAbstractParticipant_publish(st, p, message, unsub) ==
  ParticipantPublishLoop(st, p, 0, Len(st.med[p]), message, unsub)

\* observable.subscribe(observer), dispatched on the class of the emitter
Emitter_subscribe(st, e, r) ==
  IF e \in Mediators THEN TBaseMediator_subscribe(st, e, r) ELSE TBaseObservable_subscribe(st, e, r)

\* TAbstractObserver.subscribe: this.subscription = observable.subscribe(this)
TAbstractObserver_subscribe_disposePrior(st, r, e) ==
  LET res == Emitter_subscribe(TAbstractObserver_unsubscribe(st, r), e, r)
  IN [st |-> [res.st EXCEPT !.sub[r] = res.ret], ret |-> res.ret]

TAbstractObserver_subscribe(st, r, e) ==
  LET res == Emitter_subscribe(st, e, r)
  IN [st |-> [res.st EXCEPT !.sub[r] = res.ret], ret |-> res.ret]

(***************************************************************************)
(* The dispose module: AbstractDisposable, DisposablePool, dispose, using, *)
(* assertNotDisposed.  The body of every function is an operator over a    *)
(* record ds:                                                              *)
(*   h       the fields of the objects (the variable `heap`)               *)
(*   raised  the exception the running call is unwinding with, or NoEx     *)
(*   cbRuns  how often the callback handed to the call was invoked         *)
(*   seen    the objects that reported isDisposed = TRUE to the callback   *)
(*   order   the objects whose dispose() the call entered, in call order   *)
(***************************************************************************)
\* A dispose() of one object is not called more than MaxDisposeCalls times.
MaxDisposeCalls == 2
\* dispose(...disposables) is called with at most MaxBatch arguments.
MaxBatch == 3
\* continueSequence(n) is not called when it would take the sequence beyond
\* MaxItems items.
MaxItems == 4

\* Instances of subclasses of AbstractDisposable: d1 is a Fibonacci(2), whose
\* onDispose empties its items; d2 and d3 are Disposable(true), whose
\* onDispose raises.
Disposables == {"d1", "d2", "d3"}
Fibonaccis == {"d1"}
\* A Disposable(true) that is one of the pooled resources.
PooledDisposables == {"t"}
ThrowOnDispose(d) == d \in {"d2", "d3", "t"}
ItemCounts == {1, 2}
\* A DisposablePool and the objects pooled in it, in key order.
Pools == {"pool"}
Basics == {"a", "b"}
PoolKeys(p) == <<"a", "t", "b">>
AbstractDisposables == Disposables \cup PooledDisposables \cup Pools
DObjects == AbstractDisposables \cup Basics
Results == {"res"}

NoEx == [kind |-> "none", by |-> "-"]
\* new Error(...) raised by the code of `by`
Err(by) == [kind |-> "Error", by |-> by]
\* new ObjectDisposedException({ objectName })
ObjectDisposedException(by) == [kind |-> "ObjectDisposedException", by |-> by]

RECURSIVE IDisposable_dispose(_, _)

\* Mutant: the assertion never raises.
assertNotDisposed_never(ds, x) == ds

\* assertNotDisposed(disposable)
assertNotDisposed(ds, x) ==
  IF ds.h.isDisposed[x] THEN [ds EXCEPT !.raised = ObjectDisposedException(x)] ELSE ds

\* disposeInternalOne: try { disposable.dispose(); return } catch (err) { return err }
disposeInternalOne(ds, x) ==
  LET r == IDisposable_dispose(ds, x)
  IN [ds |-> [r EXCEPT !.raised = NoEx], ex |-> r.raised]

RECURSIVE DisposeInternalLoop(_, _, _, _)
DisposeInternalLoop(ds, disposables, i, exceptions) ==
  IF i >= Len(disposables)
    THEN [ds |-> ds,
          ret |-> IF Len(exceptions) > 0
                    THEN [defined |-> TRUE, list |-> exceptions]
                    ELSE [defined |-> FALSE, list |-> <<>>]]
    ELSE LET r == disposeInternalOne(ds, disposables[i + 1])
         IN DisposeInternalLoop(r.ds, disposables, i + 1,
                                IF r.ex # NoEx THEN Append(exceptions, r.ex) ELSE exceptions)

\* Mutant: the batch stops at the first resource that fails.
RECURSIVE DisposeInternalLoop_abort(_, _, _, _)
DisposeInternalLoop_abort(ds, disposables, i, exceptions) ==
  IF i >= Len(disposables) \/ Len(exceptions) > 0
    THEN [ds |-> ds,
          ret |-> IF Len(exceptions) > 0
                    THEN [defined |-> TRUE, list |-> exceptions]
                    ELSE [defined |-> FALSE, list |-> <<>>]]
    ELSE LET r == disposeInternalOne(ds, disposables[i + 1])
         IN DisposeInternalLoop_abort(r.ds, disposables, i + 1,
                                      IF r.ex # NoEx THEN Append(exceptions, r.ex) ELSE exceptions)

disposeInternal_abort(ds, disposables) == DisposeInternalLoop_abort(ds, disposables, 0, <<>>)

\* disposeInternal(disposables)
disposeInternal(ds, disposables) == DisposeInternalLoop(ds, disposables, 0, <<>>)

\* dispose(...disposables)
dispose(ds, disposables) == disposeInternal(ds, disposables)

\* dispose() of an object literal / Basic: this.isDisposed = true
Basic_dispose(ds, x) ==
  [ds EXCEPT !.h.disposeCalls[x] = @ + 1, !.order = Append(@, x), !.h.isDisposed[x] = TRUE]

\* Fibonacci.onDispose: this.disposing(); this.#items = []; super.onDispose()
Fibonacci_onDispose(ds, d) ==
  [ds EXCEPT !.h.onDisposeRuns[d] = @ + 1, !.h.items[d] = 0]

\* Disposable.onDispose:
\* if (this.throwOnDispose) throw new Error('Dispose failed'); super.onDispose()
Disposable_onDispose(ds, d) ==
  LET ds0 == [ds EXCEPT !.h.onDisposeRuns[d] = @ + 1]
  IN IF ThrowOnDispose(d) THEN [ds0 EXCEPT !.raised = Err(d)] ELSE ds0

\* this.onDispose(), dispatched on the class of a Disposables instance
Resource_onDispose(ds, d) ==
  IF d \in Fibonaccis THEN Fibonacci_onDispose(ds, d) ELSE Disposable_onDispose(ds, d)

\* The loop of the mutant DisposablePool_onDispose_uncaught: resource.dispose(), uncaught.
RECURSIVE PoolDisposeLoop_uncaught(_, _, _)
PoolDisposeLoop_uncaught(ds, keys, k) ==
  IF k >= Len(keys) \/ ds.raised # NoEx
    THEN ds
    ELSE PoolDisposeLoop_uncaught(IDisposable_dispose(ds, keys[k + 1]), keys, k + 1)

\* Object.keys(resources).forEach((key) => dispose(resources[key]))
RECURSIVE PoolDisposeLoop(_, _, _)
PoolDisposeLoop(ds, keys, k) ==
  IF k >= Len(keys)
    THEN ds
    ELSE PoolDisposeLoop(dispose(ds, <<keys[k + 1]>>).ds, keys, k + 1)

\* Mutant: a resource's exception leaves the forEach and onDispose.
DisposablePool_onDispose_uncaught(ds, p) ==
  LET ds0 == [ds EXCEPT !.h.onDisposeRuns[p] = @ + 1]
      a == assertNotDisposed(ds0, p)
  IN IF a.raised # NoEx
       THEN a
       ELSE LET r == IF a.h.poolDisposables[p] THEN PoolDisposeLoop_uncaught(a, PoolKeys(p), 0) ELSE a
            IN IF r.raised # NoEx THEN r ELSE [r EXCEPT !.h.poolDisposables[p] = FALSE]

\* DisposablePool.onDispose
DisposablePool_onDispose(ds, p) ==
  LET ds0 == [ds EXCEPT !.h.onDisposeRuns[p] = @ + 1]
      a == assertNotDisposed(ds0, p)
  IN IF a.raised # NoEx
       THEN a
       ELSE LET r == IF a.h.poolDisposables[p] THEN PoolDisposeLoop(a, PoolKeys(p), 0) ELSE a
            IN [r EXCEPT !.h.poolDisposables[p] = FALSE]

\* Mutant: no early return for an object that is already disposed.
AbstractDisposable_dispose_again(ds, d) ==
  LET ds0 == [ds EXCEPT !.h.disposeCalls[d] = @ + 1, !.order = Append(@, d)]
      r == IF d \in Pools THEN DisposablePool_onDispose(ds0, d)
                          ELSE Resource_onDispose(ds0, d)
  IN [r EXCEPT !.h.isDisposed[d] = TRUE]

\* Mutant: _isDisposed is set after onDispose, outside a finally.
AbstractDisposable_dispose_noFinally(ds, d) ==
  LET ds0 == [ds EXCEPT !.h.disposeCalls[d] = @ + 1, !.order = Append(@, d)]
  IN IF ds0.h.isDisposed[d]
       THEN ds0
       ELSE LET r == IF d \in Pools THEN DisposablePool_onDispose(ds0, d)
                                    ELSE Resource_onDispose(ds0, d)
            IN IF r.raised # NoEx THEN r ELSE [r EXCEPT !.h.isDisposed[d] = TRUE]

\* AbstractDisposable.dispose:
\* if (this.isDisposed) return; try { this.onDispose() } finally { this._isDisposed = true }
AbstractDisposable_dispose(ds, d) ==
  LET ds0 == [ds EXCEPT !.h.disposeCalls[d] = @ + 1, !.order = Append(@, d)]
  IN IF ds0.h.isDisposed[d]
       THEN ds0
       ELSE LET r == IF d \in Pools THEN DisposablePool_onDispose(ds0, d)
                                    ELSE Resource_onDispose(ds0, d)
            IN [r EXCEPT !.h.isDisposed[d] = TRUE]

\* disposable.dispose(), dispatched on the class of the object
IDisposable_dispose(ds, x) ==
  IF x \in Basics THEN Basic_dispose(ds, x) ELSE AbstractDisposable_dispose(ds, x)

\* The callback handed to using / use: it reads isDisposed of the objects it
\* is given, then returns cb.result or raises.
Callback(ds, objs, cb) ==
  LET ds1 == [ds EXCEPT !.cbRuns = @ + 1, !.seen = {x \in objs : ds.h.isDisposed[x]}]
  IN IF cb.throws THEN [ds1 EXCEPT !.raised = Err("callback")] ELSE ds1

\* try { ... } finally { ... }: an exception of the finally block replaces
\* the completion of the try block, otherwise that completion stands.
Finally(tryRaised, fin) ==
  [fin EXCEPT !.raised = IF fin.raised # NoEx THEN fin.raised ELSE tryRaised]

\* Mutant: the disposable is disposed before the callback runs.
using_disposeFirst(ds, d, cb) ==
  LET f == dispose(ds, <<d>>).ds
      c == Callback(f, {d}, cb)
  IN [ds |-> c, result |-> IF c.raised = NoEx THEN cb.result ELSE "-"]

\* using(disposable, callback):
\* try { return callback(disposable) } finally { dispose(disposable) }
using(ds, d, cb) ==
  LET c == Callback(ds, {d}, cb)
      f == Finally(c.raised, dispose([c EXCEPT !.raised = NoEx], <<d>>).ds)
  IN [ds |-> f, result |-> IF f.raised = NoEx THEN cb.result ELSE "-"]

\* Mutant: the pool is not disposed when the callback raises.
DisposablePool_use_noFinally(ds, p, cb) ==
  LET a == assertNotDisposed(ds, p)
  IN IF a.raised # NoEx
       THEN a
       ELSE LET c == IF a.h.poolDisposables[p]
                       THEN Callback(a, {p} \cup {PoolKeys(p)[k] : k \in 1..Len(PoolKeys(p))}, cb)
                       ELSE a
            IN IF c.raised # NoEx THEN c ELSE AbstractDisposable_dispose(c, p)

\* Mutant: the pool is disposed before the callback runs.
DisposablePool_use_disposeFirst(ds, p, cb) ==
  LET a == assertNotDisposed(ds, p)
  IN IF a.raised # NoEx
       THEN a
       ELSE LET f == AbstractDisposable_dispose(a, p)
            IN Callback(f, {p} \cup {PoolKeys(p)[k] : k \in 1..Len(PoolKeys(p))}, cb)

\* DisposablePool.use(callback)
DisposablePool_use(ds, p, cb) ==
  LET a == assertNotDisposed(ds, p)
  IN IF a.raised # NoEx
       THEN a
       ELSE LET c == IF a.h.poolDisposables[p]
                       THEN Callback(a, {p} \cup {PoolKeys(p)[k] : k \in 1..Len(PoolKeys(p))}, cb)
                       ELSE a
            IN Finally(c.raised, AbstractDisposable_dispose([c EXCEPT !.raised = NoEx], p))

\* usingAsync(disposable, callback) up to its await: callback(disposable)
\* runs in the caller's turn and hands back a promise; an exception of the
\* callback is the rejection of that promise.
usingAsync_await(ds, d, cb) == Callback(ds, {d}, cb)

\* usingAsync after the awaited promise settled: finally { dispose(disposable) },
\* then the promise of usingAsync resolves with the callback's result or
\* rejects with its exception (kept in ds.raised).
usingAsync_resume(ds, d, cb) ==
  LET completion == IF cb.throws THEN Err("callback") ELSE NoEx
      f == Finally(completion, dispose(ds, <<d>>).ds)
  IN [ds |-> f, result |-> IF f.raised = NoEx THEN cb.result ELSE "-"]

\* DisposablePool.useAsync(callback) up to its await.  `pending` tells
\* whether the call waits for the callback; otherwise it is over: rejected
\* with ObjectDisposedException (in ds.raised) on a disposed pool, or,
\* without resources, through the finally block at once.
DisposablePool_useAsync_await(ds, p, cb) ==
  LET a == assertNotDisposed(ds, p)
  IN IF a.raised # NoEx
       THEN [ds |-> a, pending |-> FALSE]
       ELSE IF a.h.poolDisposables[p]
              THEN [ds |-> [Callback(a, {p} \cup {PoolKeys(p)[k] : k \in 1..Len(PoolKeys(p))}, cb)
                              EXCEPT !.raised = NoEx],
                    pending |-> TRUE]
              ELSE [ds |-> AbstractDisposable_dispose(a, p), pending |-> FALSE]

\* useAsync after the awaited promise settled: finally { this.dispose() }
DisposablePool_useAsync_resume(ds, p, cb) ==
  Finally(IF cb.throws THEN Err("callback") ELSE NoEx, AbstractDisposable_dispose(ds, p))

\* Mutant: the method is not guarded.
Fibonacci_continueSequence_unguarded(ds, d, itemCount) ==
  [ds EXCEPT !.h.items[d] = @ + itemCount]

\* Fibonacci.continueSequence(itemCount): this.assertNotDisposed(), then
\* itemCount pushes
Fibonacci_continueSequence(ds, d, itemCount) ==
  LET a == assertNotDisposed(ds, d)
  IN IF a.raised # NoEx THEN a ELSE [a EXCEPT !.h.items[d] = @ + itemCount]

(***************************************************************************)
(* State, initial state                                                    *)
(***************************************************************************)
Machine ==
  [obs |-> observers, med |-> mediators, sub |-> subscription, log |-> <<>>,
   throws |-> {}, removes |-> {}, adds |-> {}, fault |-> FALSE, depth |-> 0,
   abort |-> FALSE]

Op(op, target, h, arg, unsub, before, ret) ==
  [op |-> op, target |-> target, h |-> h, arg |-> arg, unsub |-> unsub,
   before |-> before, ret |-> ret]

\* The dispose-module state at the start of a call.
DMachine(h) == [h |-> h, raised |-> NoEx, cbRuns |-> 0, seen |-> {}, order |-> <<>>]
Callbacks == [throws : BOOLEAN, result : Results]
NoCallback == [throws |-> FALSE, result |-> "-"]
NoRet == [defined |-> FALSE, list |-> <<>>]
\* The record of the last call into the dispose module: what was called on
\* what, the exception it ended with, the value of dispose(...) (ret) or of
\* using(...) (result), what its callback saw, and the dispose() calls it made.
Call(op, target, args, cb, ds, ret, result) ==
  [op |-> op, target |-> target, args |-> args, cb |-> cb, raised |-> ds.raised,
   ret |-> ret, result |-> result, cbRuns |-> ds.cbRuns, seen |-> ds.seen,
   order |-> ds.order]

Init ==
  /\ observers = [e \in Emitters |-> <<>>]
  /\ mediators = [p \in Participants |-> <<>>]
  /\ subscription = [o \in AbstractObservers |-> None]
  /\ issued = {}
  /\ calls = <<>>
  /\ lastOp = Op("init", "-", None, <<>>, {}, <<>>, None)
  /\ fault = [throws |-> {}, raised |-> FALSE]
  /\ heap = [isDisposed |-> [x \in DObjects |-> FALSE],
             disposeCalls |-> [x \in DObjects |-> 0],
             onDisposeRuns |-> [x \in AbstractDisposables |-> 0],
             items |-> [d \in Fibonaccis |-> 2],
             poolDisposables |-> [p \in Pools |-> TRUE]]
  /\ lastCall = Call("init", "-", <<>>, NoCallback, DMachine(heap), NoRet, "-")
  /\ awaiting = <<>>
  /\ running = TRUE

\* The state of the dispose module reached by a call becomes the next state.
DCommit(ds, call) ==
  /\ heap' = ds.h
  /\ lastCall' = call
  /\ UNCHANGED channelVars
  /\ UNCHANGED <<awaiting, running>>

\* The same for a step of an asynchronous call; aw holds the calls that
\* wait for their callback after the step.
ACommit(ds, call, aw) ==
  /\ heap' = ds.h
  /\ lastCall' = call
  /\ awaiting' = aw
  /\ UNCHANGED channelVars
  /\ UNCHANGED running

\* The machine state st becomes the next state; `calls` is the log of the
\* call, `fault` tells which callbacks were set to raise and whether the
\* call ended with an exception.  Calls are made while the process runs; a
\* call that the engine ended the process in leaves no running process.
Commit(st) ==
  /\ running
  /\ running' = ~st.abort
  /\ observers' = st.obs
  /\ mediators' = st.med
  /\ subscription' = st.sub
  /\ calls' = st.log
  /\ fault' = [throws |-> st.throws, raised |-> st.fault]
  /\ UNCHANGED <<heap, lastCall, awaiting>>

UnsubChoices(S) == {u \in SUBSET S : Cardinality(u) <= MaxUnsub}

(***************************************************************************)
(* Actions of the observer channel                                         *)
(***************************************************************************)
\* observable.subscribe(receiver), called by the application
Subscribe(e, r) ==
  /\ Len(observers[e]) < MaxLen
  /\ LET res == TBaseObservable_subscribe(Machine, e, r)
     IN /\ Commit(res.st)
        /\ issued' = issued \cup {res.ret}
        /\ lastOp' = Op("subscribe", e, None, <<r>>, {}, observers[e], res.ret)

\* TAbstractObserver.subscribe: this.subscription = observable.subscribe(this)
ObserverSubscribe(r, e) ==
  /\ e \in Observables => Len(observers[e]) < MaxLen
  /\ LET res == TAbstractObserver_subscribe(Machine, r, e)
     IN /\ Commit(res.st)
        /\ issued' = issued \cup {res.ret}
        /\ lastOp' = Op("observerSubscribe", e, None, <<r>>, {}, observers[e], res.ret)

\* dispose() on a disposable the application holds
Dispose(h) ==
  /\ h \in issued
  /\ Commit(DisposeHandle(Machine, h))
  /\ lastOp' = Op("dispose", h.owner, h, <<>>, {}, ArrayOf(Machine, h.owner), None)
  /\ UNCHANGED issued

\* observer.unsubscribe()
Unsubscribe(r) ==
  /\ Commit(TAbstractObserver_unsubscribe(Machine, r))
  /\ lastOp' = Op("unsubscribe", r, subscription[r], <<>>, {}, <<>>, None)
  /\ UNCHANGED issued

\* observer.complete(), called directly by the application
ObserverComplete(r) ==
  /\ Commit(TAbstractObserver_complete(Machine, r))
  /\ lastOp' = Op("observerComplete", r, subscription[r], <<>>, {}, <<>>, None)
  /\ UNCHANGED issued

\* observable.publish(value)
Publish(e, v, unsub) ==
  /\ Commit(TBaseObservable_publish(Machine, e, <<v>>, unsub))
  /\ lastOp' = Op("publish", e, None, <<v>>, unsub, observers[e], None)
  /\ UNCHANGED issued

\* observable.complete()
Complete(e) ==
  /\ Commit(TBaseObservable_complete(Machine, e))
  /\ lastOp' = Op("complete", e, None, <<>>, {}, observers[e], None)
  /\ UNCHANGED issued

\* the emitter reports a failure: this.onError(error)
OnError(e, error) ==
  /\ Commit(TBaseObservable_onError(Machine, e, <<error>>))
  /\ lastOp' = Op("onError", e, None, <<error>>, {}, observers[e], None)
  /\ UNCHANGED issued

Next ==
  \/ \E e \in ChannelObservables, r \in Trackers : Subscribe(e, r)
  \/ \E e \in ChannelObservables, r \in Trackers : ObserverSubscribe(r, e)
  \/ \E h \in issued : Dispose(h)
  \/ \E r \in Trackers : Unsubscribe(r)
  \/ \E r \in Trackers : ObserverComplete(r)
  \/ \E e \in ChannelObservables, v \in Values, u \in UnsubChoices(Trackers) : Publish(e, v, u)
  \/ \E e \in ChannelObservables : Complete(e)
  \/ \E e \in ChannelObservables, err \in Errors : OnError(e, err)

Spec == Init /\ [][Next]_vars

(***************************************************************************)
(* Actions of the mediator                                                 *)
(***************************************************************************)
Messages == {<<t, x>> : t \in TopicKeys, x \in Payloads}

\* mediator.subscribe(receiver), called by the application
MediatorSubscribe(m, r) ==
  LET res == TBaseMediator_subscribe(Machine, m, r)
  IN /\ Commit(res.st)
     /\ issued' = IF res.ret = None THEN issued ELSE issued \cup {res.ret}
     /\ lastOp' = Op("mediatorSubscribe", m, None, <<r>>, {}, observers[m], res.ret)

\* participant.subscribe(mediator), called by the application
ParticipantSubscribe(p, m) ==
  LET res == TAbstractParticipant_subscribe(Machine, p, m)
  IN /\ Commit(res.st)
     /\ issued' = issued \cup {res.ret}
     /\ lastOp' = Op("participantSubscribe", p, None, <<m>>, {}, observers[m], res.ret)

\* mediator.publish([topic, payload]) (inherited from TBasePublisher)
MediatorPublish(m, msg, unsub) ==
  /\ Commit(TBasePublisher_publish(Machine, m, msg, unsub))
  /\ lastOp' = Op("mediatorPublish", m, None, msg, unsub, observers[m], None)
  /\ UNCHANGED issued

\* mediator.next([sender, topic, payload]), called directly
MediatorNext(m, sender, msg, unsub) ==
  /\ Commit(TBaseMediator_next(Machine, m, <<sender>> \o msg, unsub))
  /\ lastOp' = Op("mediatorNext", m, None, <<sender>> \o msg, unsub, observers[m], None)
  /\ UNCHANGED issued

\* participant.publish([topic, payload])
ParticipantPublish(p, m, msg, unsub) ==
  /\ Commit(TAbstractParticipant_publish(Machine, p, msg, unsub))
  /\ lastOp' = Op("participantPublish", p, None, msg, unsub, observers[m], None)
  /\ UNCHANGED issued

\* mediator.error(error)
MediatorError(m, error) ==
  /\ Commit(TBaseMediator_error(Machine, m, <<error>>))
  /\ lastOp' = Op("mediatorError", m, None, <<error>>, {}, observers[m], None)
  /\ UNCHANGED issued

NextMediator ==
  \/ \E m \in RoutingMediators, r \in MedReceivers : MediatorSubscribe(m, r)
  \/ \E m \in RoutingMediators, p \in Participants : ParticipantSubscribe(p, m)
  \/ \E m \in RoutingMediators, r \in PlainObservers : ObserverSubscribe(r, m)
  \/ \E h \in issued : Dispose(h)
  \/ \E r \in PlainObservers \cup Participants : Unsubscribe(r)
  \/ \E m \in RoutingMediators, msg \in Messages, u \in UnsubChoices(PlainObservers) :
       MediatorPublish(m, msg, u)
  \/ \E m \in RoutingMediators, s \in Senders, msg \in Messages, u \in UnsubChoices(PlainObservers) :
       MediatorNext(m, s, msg, u)
  \/ \E m \in RoutingMediators, p \in Participants, msg \in Messages, u \in UnsubChoices(PlainObservers) :
       ParticipantPublish(p, m, msg, u)
  \/ \E m \in RoutingMediators : Complete(m)
  \/ \E m \in RoutingMediators, err \in Errors : OnError(m, err)
  \/ \E m \in RoutingMediators, err \in Errors : MediatorError(m, err)

SpecMediator == Init /\ [][NextMediator]_vars

(***************************************************************************)
(* Actions of the participant <-> mediator link: one participant and one   *)
(* plain observer on two mediators                                         *)
(***************************************************************************)
LinkParticipants == {"p1"}
LinkObservers == {"o1"}

\* p.subscribe(m) after the participant-side link was disposed: m is not in
\* p's list and p is still in m's collection.
Relink(p, m) ==
  /\ ~Includes(mediators[p], m)
  /\ Includes(observers[m], p)
  /\ LET res == TAbstractParticipant_subscribe(Machine, p, m)
     IN /\ Commit(res.st)
        /\ issued' = IF res.ret = None THEN issued ELSE issued \cup {res.ret}
        /\ lastOp' = Op("relink", p, None, <<m>>, {}, observers[m], res.ret)

NextLink ==
  \/ \E m \in Mediators, p \in LinkParticipants : MediatorSubscribe(m, p)
  \/ \E m \in Mediators, p \in LinkParticipants : ParticipantSubscribe(p, m)
  \/ \E m \in Mediators, p \in LinkParticipants : Relink(p, m)
  \/ \E m \in Mediators, r \in LinkObservers : ObserverSubscribe(r, m)
  \/ \E h \in issued : Dispose(h)
  \/ \E r \in LinkObservers : Unsubscribe(r)
  \/ \E m \in Mediators, p \in LinkParticipants, msg \in Messages, u \in UnsubChoices(LinkObservers) :
       ParticipantPublish(p, m, msg, u)

SpecLink == Init /\ [][NextLink]_vars

(***************************************************************************)
(* Actions of a delivery pass in which a receiver's next() raises          *)
(***************************************************************************)
FaultTrackers == {"r1", "r2"}
FaultReceivers == {"o1", "s1", "p1"}

ThrowChoices(S) == {t \in SUBSET S : Cardinality(t) <= MaxThrow}

\* The machine state of a call during which the receivers in `throws` raise.
Throwing(throws) == [Machine EXCEPT !.throws = throws]

\* observable.publish(value) with raising receivers
PublishThrowing(e, v, throws) ==
  /\ Commit(TBaseObservable_publish(Throwing(throws), e, <<v>>, {}))
  /\ lastOp' = Op("publish", e, None, <<v>>, {}, observers[e], None)
  /\ UNCHANGED issued

\* mediator.next([sender, topic, payload]) with raising receivers
MediatorNextThrowing(m, sender, msg, throws) ==
  /\ Commit(TBaseMediator_next(Throwing(throws), m, <<sender>> \o msg, {}))
  /\ lastOp' = Op("mediatorNext", m, None, <<sender>> \o msg, {}, observers[m], None)
  /\ UNCHANGED issued

NextFault ==
  \/ \E e \in ChannelObservables, r \in FaultTrackers : Subscribe(e, r)
  \/ \E m \in RoutingMediators, r \in FaultReceivers : MediatorSubscribe(m, r)
  \/ \E e \in ChannelObservables, v \in Values, t \in ThrowChoices(FaultTrackers) :
       PublishThrowing(e, v, t)
  \/ \E m \in RoutingMediators, s \in Senders, msg \in Messages, t \in ThrowChoices(FaultReceivers) :
       MediatorNextThrowing(m, s, msg, t)

SpecFault == Init /\ [][NextFault]_vars

(***************************************************************************)
(* One observer on two observables                                         *)
(***************************************************************************)
TwoTrackers == {"r1", "r2"}

NextTracker ==
  \/ \E r \in TwoTrackers, e \in Observables : ObserverSubscribe(r, e)
  \/ \E r \in TwoTrackers : Unsubscribe(r)
  \/ \E e \in Observables, v \in Values : Publish(e, v, {})

SpecTracker == Init /\ [][NextTracker]_vars

(***************************************************************************)
(* A receiver whose next disposes the subscription of another receiver     *)
(***************************************************************************)
\* The machine state in which the next of receiver `by` calls h.dispose().
Removing(by, h) == [Machine EXCEPT !.removes = {[by |-> by, h |-> h]}]

\* e.publish(v) where the next of `by` disposes subscription h of e; the
\* `unsub` field of lastOp holds `by`, the `h` field the subscription.
PublishRemoving(e, v, by, h) ==
  /\ h \in issued /\ h.kind = "sub" /\ h.owner = e
  /\ Commit(TBaseObservable_publish(Removing(by, h), e, <<v>>, {}))
  /\ lastOp' = Op("publishRemoving", e, h, <<v>>, {by}, observers[e], None)
  /\ UNCHANGED issued

NextRemove ==
  \/ \E e \in ChannelObservables, r \in Trackers : Subscribe(e, r)
  \/ \E h \in issued : Dispose(h)
  \/ \E e \in ChannelObservables, v \in Values : Publish(e, v, {})
  \/ \E e \in ChannelObservables, v \in Values, by \in Trackers, h \in issued :
       PublishRemoving(e, v, by, h)

SpecRemove == Init /\ [][NextRemove]_vars

(***************************************************************************)
(* Every structural kind of receiver on a mediator, a mediator included    *)
(***************************************************************************)
ChainReceivers == {"o1", "s1", "p1"}

NextChain ==
  \/ \E m \in RoutingMediators : \E r \in ChainReceivers \cup (Mediators \ {m}) :
       MediatorSubscribe(m, r)
  \/ \E h \in issued : Dispose(h)
  \/ \E m \in Mediators : Complete(m)

SpecChain == Init /\ [][NextChain]_vars

(***************************************************************************)
(* A receiver whose next subscribes a receiver to the publishing observable*)
(***************************************************************************)
\* The number of entries of s that are x.
Occurrences(s, x) == Cardinality({i \in 1..Len(s) : s[i] = x})

\* The machine state in which the next of receiver `by` calls e.subscribe(r).
Adding(by, e, r) == [Machine EXCEPT !.adds = {[by |-> by, e |-> e, r |-> r]}]

\* e.publish(v) where the next of `by` calls e.subscribe(r); the `unsub`
\* field of lastOp holds `by`, the `h` field the subscription that
\* e.subscribe(r) returns.  A pass that ends leaves at most MaxArray entries.
PublishAdding(e, v, by, r) ==
  /\ by = r \/ Len(observers[e]) + Occurrences(observers[e], by) <= MaxArray
  /\ Commit(TBaseObservable_publish(Adding(by, e, r), e, <<v>>, {}))
  /\ lastOp' = Op("publishAdding", e, Sub(e, r), <<v>>, {by}, observers[e], None)
  /\ UNCHANGED issued

NextAdd ==
  \/ \E e \in ChannelObservables, r \in TwoTrackers : Subscribe(e, r)
  \/ \E h \in issued : Dispose(h)
  \/ \E e \in ChannelObservables, v \in Values, by \in TwoTrackers, r \in TwoTrackers :
       PublishAdding(e, v, by, r)

SpecAdd == Init /\ [][NextAdd]_vars

(***************************************************************************)
(* A subscription kept after its registration is gone (a stale handle)     *)
(***************************************************************************)
\* e.subscribe(r) when a subscription of r on e was issued earlier and r is
\* no longer in the collection: that earlier subscription object is stale.
\* The `h` field of lastOp holds it.
Resubscribe(e, r) ==
  /\ Sub(e, r) \in issued
  /\ ~Includes(observers[e], r)
  /\ Len(observers[e]) < MaxLen
  /\ LET res == TBaseObservable_subscribe(Machine, e, r)
     IN /\ Commit(res.st)
        /\ issued' = issued \cup {res.ret}
        /\ lastOp' = Op("resubscribe", e, Sub(e, r), <<r>>, {}, observers[e], res.ret)

\* s.dispose() on the stale subscription object s of the last resubscribe.
DisposeStale(h) ==
  /\ lastOp.op = "resubscribe"
  /\ lastOp.h = h
  /\ Commit(DisposeHandle(Machine, h))
  /\ lastOp' = Op("disposeStale", h.owner, h, <<>>, {}, ArrayOf(Machine, h.owner), None)
  /\ UNCHANGED issued

NextStale ==
  \/ \E e \in ChannelObservables, r \in Trackers : Subscribe(e, r)
  \/ \E h \in issued : Dispose(h)
  \/ \E e \in ChannelObservables : Complete(e)
  \/ \E e \in ChannelObservables, r \in Trackers : Resubscribe(e, r)
  \/ \E h \in issued : DisposeStale(h)

SpecStale == Init /\ [][NextStale]_vars

(***************************************************************************)
(* Every kind of disposable that subscribe hands out: from an observable,  *)
(* and from a mediator for an observer, for a new participant and for a    *)
(* participant it holds already                                            *)
(***************************************************************************)
NextHandles ==
  \/ \E e \in ChannelObservables, r \in TwoTrackers : Subscribe(e, r)
  \/ \E m \in Mediators, r \in LinkParticipants \cup LinkObservers : MediatorSubscribe(m, r)
  \/ \E h \in issued : Dispose(h)

SpecHandles == Init /\ [][NextHandles]_vars


(***************************************************************************)
(* Calls into the dispose module                                           *)
(***************************************************************************)
Batches == UNION {[1..n -> Disposables] : n \in 0..MaxBatch}
CanDispose(S) == \A x \in S : heap.disposeCalls[x] < MaxDisposeCalls

\* x.dispose()
DisposeCall(x) ==
  /\ CanDispose({x})
  /\ LET ds == AbstractDisposable_dispose(DMachine(heap), x)
     IN DCommit(ds, Call("dispose", x, <<>>, NoCallback, ds, NoRet, "-"))

\* dispose(d1, ..., dn)
BatchDispose(args) ==
  /\ CanDispose({args[k] : k \in 1..Len(args)})
  /\ LET r == dispose(DMachine(heap), args)
     IN DCommit(r.ds, Call("batch", "-", args, NoCallback, r.ds, r.ret, "-"))

\* using(d, callback)
Using(d, cb) ==
  /\ CanDispose({d})
  /\ LET r == using(DMachine(heap), d, cb)
     IN DCommit(r.ds, Call("using", d, <<>>, cb, r.ds, NoRet, r.result))

\* pool.use(callback)
PoolUse(p, cb) ==
  /\ CanDispose({p} \cup {PoolKeys(p)[k] : k \in 1..Len(PoolKeys(p))})
  /\ LET ds == DisposablePool_use(DMachine(heap), p, cb)
     IN DCommit(ds, Call("use", p, <<>>, cb, ds, NoRet, "-"))

\* d.continueSequence(itemCount)
ContinueSequence(d, itemCount) ==
  /\ heap.items[d] + itemCount <= MaxItems
  /\ LET ds == Fibonacci_continueSequence(DMachine(heap), d, itemCount)
     IN DCommit(ds, Call("continueSequence", d, <<>>, NoCallback, ds, NoRet, "-"))

NextDispose ==
  \/ \E x \in Disposables \cup Pools : DisposeCall(x)
  \/ \E args \in Batches : BatchDispose(args)
  \/ \E d \in Disposables, cb \in Callbacks : Using(d, cb)
  \/ \E p \in Pools, cb \in Callbacks : PoolUse(p, cb)
  \/ \E d \in Fibonaccis, n \in ItemCounts : ContinueSequence(d, n)

SpecDispose == Init /\ [][NextDispose]_vars

(***************************************************************************)
(* Asynchronous calls into the dispose module: the callback is awaited,    *)
(* other calls run before the finally block does                           *)
(***************************************************************************)
Pending(op, target, cb) == [op |-> op, target |-> target, cb |-> cb]
RemoveAt(s, i) == SubSeq(s, 1, i - 1) \o SubSeq(s, i + 1, Len(s))

\* usingAsync(d, callback) is called: the callback runs, the call waits for it.
UsingAsync(d, cb) ==
  /\ Len(awaiting) < MaxAwait
  /\ CanDispose({d})
  /\ LET ds == usingAsync_await(DMachine(heap), d, cb)
     IN ACommit(ds, Call("usingAsync", d, <<>>, cb, [ds EXCEPT !.raised = NoEx], NoRet, "-"),
                Append(awaiting, Pending("usingAsync", d, cb)))

\* pool.useAsync(callback) is called; in the record of the call `raised`
\* is the rejection of the promise the call returned.
PoolUseAsync(p, cb) ==
  /\ Len(awaiting) < MaxAwait
  /\ CanDispose({p})
  /\ LET r == DisposablePool_useAsync_await(DMachine(heap), p, cb)
     IN ACommit(r.ds, Call("useAsync", p, <<>>, cb, r.ds, NoRet, "-"),
                IF r.pending THEN Append(awaiting, Pending("useAsync", p, cb)) ELSE awaiting)

\* The callback of the i-th waiting call settled: the call runs its finally
\* block and its promise settles (`raised` is the rejection).
Resume(i) ==
  LET w == awaiting[i]
  IN IF w.op = "usingAsync"
       THEN LET r == usingAsync_resume(DMachine(heap), w.target, w.cb)
            IN ACommit(r.ds, Call("usingAsyncSettled", w.target, <<>>, w.cb, r.ds, NoRet, r.result),
                       RemoveAt(awaiting, i))
       ELSE LET ds == DisposablePool_useAsync_resume(DMachine(heap), w.target, w.cb)
            IN ACommit(ds, Call("useAsyncSettled", w.target, <<>>, w.cb, ds, NoRet, "-"),
                       RemoveAt(awaiting, i))

NextAsync ==
  \/ \E x \in Disposables \cup Pools : DisposeCall(x)
  \/ \E p \in Pools, cb \in Callbacks : PoolUse(p, cb)
  \/ \E d \in Fibonaccis, n \in ItemCounts : ContinueSequence(d, n)
  \/ \E d \in Disposables, cb \in Callbacks : UsingAsync(d, cb)
  \/ \E p \in Pools, cb \in Callbacks : PoolUseAsync(p, cb)
  \/ \E i \in 1..Len(awaiting) : Resume(i)

SpecAsync == Init /\ [][NextAsync]_vars

(***************************************************************************)
(* Helpers of the properties                                               *)
(***************************************************************************)
MachineOf(o, m, s) ==
  [obs |-> o, med |-> m, sub |-> s, log |-> <<>>, throws |-> {}, removes |-> {},
   adds |-> {}, fault |-> FALSE, depth |-> 0, abort |-> FALSE]

\* How often `kind` was invoked on receiver r in a log.
Count(log, r, kind) == Cardinality({i \in 1..Len(log) : log[i].rcv = r /\ log[i].kind = kind})

\* How often next(arg) was invoked on receiver r in a log.
CountNext(log, r, arg) ==
  Cardinality({i \in 1..Len(log) : log[i] = Entry(r, "next", arg)})


\* One notification of `kind` with `arg` per entry of the array s, in order.
OnePerEntry(s, kind, arg) == [i \in 1..Len(s) |-> Entry(s[i], kind, arg)]

\* The array s without the first occurrence of x.
WithoutFirst(s, x) == IF Includes(s, x) THEN Splice1(s, IndexOf(s, x)) ELSE s

\* Receiver r is invoked by some publish/next on emitter e in state st.
Reached(st, e, r) ==
  IF e \in Mediators
    THEN \E msg \in Messages :
           \/ Count(TBasePublisher_publish(st, e, msg, {}).log, r, "next") > 0
           \/ \E s \in Senders :
                Count(TBaseMediator_next(st, e, <<s>> \o msg, {}).log, r, "next") > 0
    ELSE \E v \in Values : Count(TBaseObservable_publish(st, e, <<v>>, {}).log, r, "next") > 0

\* The spec's eligibility of receiver r for a message of `topic` sent by `sender`.
Eligible(r, sender, topic) ==
  \/ r \in PlainObservers
  \/ r \in Subscribers /\ Includes(TopicsOf(r), topic)
  \/ r \in Participants /\ Includes(TopicsOf(r), topic) /\ ParticipantIdOf(r) # sender

NoDuplicates(s) == \A i, j \in 1..Len(s) : s[i] = s[j] => i = j

\* 1-based position of the first entry of s that raises, 0 when none does.
FirstThrower(s, throws) ==
  IF \E i \in 1..Len(s) : s[i] \in throws
    THEN CHOOSE i \in 1..Len(s) : s[i] \in throws /\ \A j \in 1..(i - 1) : s[j] \notin throws
    ELSE 0

\* The notifications of a pass over s that stops at the first raising entry.
UpToFirstThrower(s, throws, arg) ==
  IF FirstThrower(s, throws) = 0
    THEN OnePerEntry(s, "next", arg)
    ELSE SubSeq(OnePerEntry(s, "next", arg), 1, FirstThrower(s, throws))

\* The calls of a log that went to a mediator's next.
MediatorCalls(log) == SelectSeq(log, LAMBDA c : c.rcv \in Mediators)

\* The callbacks of a log that went to receivers (not to a mediator's next).
ReceiverCalls(log) == SelectSeq(log, LAMBDA c : c.rcv \notin Mediators)

\* The entries of the array s that are eligible, in the order of s.
EligibleIn(s, sender, topic) == SelectSeq(s, LAMBDA r : Eligible(r, sender, topic))

(***************************************************************************)
(* C1 - C10                                                                *)
(***************************************************************************)
\* C1 (as stated): after s.dispose() the subscription reports isDisposed,
\* whether or not other receivers are still registered on the emitter.
C1_DisposedAfterDispose ==
  lastOp.op = "dispose" => IsDisposed(Machine, lastOp.h)

\* The subscriptions a disposable is made of: the collection each one
\* references is that of its owner, the entry it removes is its item.
PartsOf(h) == IF h.kind = "composite" THEN {LocalOf(h), RemoteOf(h)} ELSE {h}

\* C1 (amended): after s.dispose() the disposable reports isDisposed exactly
\* when every collection it references is left empty, i.e. held no entry
\* other than the one that s.dispose() removes; it is false while another
\* entry is still in one of them.  The collections are those before the
\* call, whether it is the first dispose() of s or a later one.
C1_DisposedIffNothingLeft ==
  [][lastOp'.op = "dispose" =>
       (IsDisposed(MachineOf(observers', mediators', subscription'), lastOp'.h)
          <=> \A part \in PartsOf(lastOp'.h) :
                Len(WithoutFirst(ArrayOf(Machine, part.owner), part.item)) = 0)]_vars

\* The composite of a participant that is linked to two mediators was
\* disposed: the collection of its mediator is left empty, the other
\* mediator is still in the participant's list, and it reports FALSE.
C1_Witness ==
  /\ lastOp.op = "dispose"
  /\ lastOp.h = Composite(Sub("M", "p1"), Sub("p1", "M"))
  /\ lastOp.before = <<"p1">>
  /\ observers["M"] = <<>>
  /\ mediators["p1"] = <<"M2">>
  /\ ~IsDisposed(Machine, lastOp.h)

\* C2: every subscription issued over an emitter's collection reports
\* isDisposed = FALSE while at least one receiver is registered on the
\* emitter (also when its own receiver is gone) and TRUE once none is.
C2_DisposedIffEmitterEmpty ==
  \A h \in issued :
    (h.kind = "sub" /\ h.owner \in Emitters) =>
      (IsDisposed(Machine, h) <=> \A r \in Receivers : ~Includes(observers[h.owner], r))

C2_Witness ==
  /\ lastOp.op = "unsubscribe"
  /\ \E h \in issued :
       /\ h = lastOp.h
       /\ ~Includes(observers[h.owner], h.item)
       /\ Len(observers[h.owner]) >= 1
       /\ ~IsDisposed(Machine, h)

\* C3: a second dispose() of a subscription, or a dispose() after the
\* emitter's complete(), leaves the emitter's collection as it was.
C3_SecondDisposeNoOp ==
  [][(/\ lastOp'.op = "dispose"
      /\ \/ lastOp.op = "dispose" /\ lastOp.h = lastOp'.h
         \/ lastOp.op = "complete" /\ lastOp.target = lastOp'.target)
     => observers' = observers]_vars

\* C4: once the disposable returned by emitter.subscribe(receiver) is
\* disposed, no publish/next on that emitter invokes the receiver's next.
C4_RevokedNotReached ==
  [][(/\ lastOp.op \in {"subscribe", "observerSubscribe", "mediatorSubscribe"}
      /\ lastOp'.op = "dispose"
      /\ lastOp'.h = lastOp.ret)
     => ~Reached(MachineOf(observers', mediators', subscription'), lastOp.target, lastOp.arg[1])]_vars

\* C5: after emitter.complete() returns, the emitter's collection is empty,
\* every disposable issued for that emitter (the ones bound to it and the one
\* its subscribe returned last) reports isDisposed, and a publish/next that
\* follows invokes no receiver.
C5_CompleteClears ==
  [][lastOp'.op = "complete" =>
       LET st == MachineOf(observers', mediators', subscription')
           e  == lastOp'.target
       IN /\ Len(observers'[e]) = 0
          /\ \A h \in issued' : h.owner = e => IsDisposed(st, h)
          /\ (/\ lastOp.op \in {"subscribe", "observerSubscribe", "mediatorSubscribe"}
              /\ lastOp.target = e) => IsDisposed(st, lastOp.ret)
          /\ \A r \in Receivers : ~Reached(st, e, r)]_vars

\* C6: complete() invokes complete() exactly once on every receiver that
\* was in the collection when it was called, in insertion order, also when
\* the receivers use the default TAbstractObserver.complete().
C6_CompleteNotifiesAll ==
  (lastOp.op = "complete" /\ NoDuplicates(lastOp.before)) =>
    calls = OnePerEntry(lastOp.before, "complete", <<>>)

\* C7: with no callback mutating the collection, publish(v) invokes next(v)
\* once per entry of the collection, in subscription order, and on no other
\* receiver.
C7_PublishNotifiesAll ==
  (lastOp.op = "publish" /\ lastOp.unsub = {}) =>
    /\ calls = OnePerEntry(lastOp.before, "next", lastOp.arg)
    /\ observers[lastOp.target] = lastOp.before

C7_Witness ==
  /\ lastOp.op = "publish"
  /\ lastOp.unsub = {}
  /\ Len(lastOp.before) = 3
  /\ Len(calls) = 3
  /\ calls[1].rcv # calls[2].rcv

\* C8: in a pass during which a receiver disposes its own subscription from
\* its callback, every receiver registered at the start of the pass is
\* still notified exactly once.
C8_SelfDisposeSkipsNobody ==
  (lastOp.op = "publish" /\ lastOp.unsub # {} /\ NoDuplicates(lastOp.before)) =>
    \A r \in Receivers : Count(calls, r, "next") = Occurrences(lastOp.before, r)

\* C9: a receiver is at most once in a mediator's collection, so one
\* mediator.next/publish invokes a receiver's next at most once, and
\* exactly once when the receiver is registered and eligible (in a pass
\* whose callbacks leave the collection alone).
C9_MediatorNoDuplicates ==
  /\ \A m \in Mediators : NoDuplicates(observers[m])
  /\ lastOp.op \in {"mediatorNext", "mediatorPublish"} =>
       LET sender == IF lastOp.op = "mediatorNext" THEN lastOp.arg[1] ELSE ExternalSender
           msg == IF lastOp.op = "mediatorNext" THEN Tail(lastOp.arg) ELSE lastOp.arg
       IN \A r \in MedReceivers :
            /\ Count(calls, r, "next") <= 1
            /\ (lastOp.unsub = {} /\ Includes(lastOp.before, r) /\ Eligible(r, sender, msg[1]))
                 => CountNext(calls, r, msg) = 1

C9_Witness ==
  /\ lastOp.op = "mediatorNext"
  /\ \E p \in Participants :
       /\ [kind |-> "composite", owner |-> lastOp.target, item |-> p] \in issued
       /\ Count(calls, p, "next") = 1
  /\ \E o \in PlainObservers :
       /\ subscription[o] # None
       /\ Count(calls, o, "next") = 1

\* C10: P.publish([t, x]) through mediator M never invokes P.next and
\* invokes next([t, x]) once on every other receiver registered on M that
\* is eligible for t (in a pass whose callbacks leave the collection alone).
C10_EchoSuppression ==
  lastOp.op = "participantPublish" =>
    LET p == lastOp.target
    IN /\ Count(calls, p, "next") = 0
       /\ \A m \in Mediators : \A r \in MedReceivers \ {p} :
            (/\ Includes(mediators[p], m)
             /\ lastOp.unsub = {}
             /\ Includes(observers[m], r)
             /\ Eligible(r, ParticipantIdOf(p), lastOp.arg[1]))
            => CountNext(calls, r, lastOp.arg) = 1

C10_Witness ==
  /\ lastOp.op = "participantPublish"
  /\ Includes(mediators[lastOp.target], "M")
  /\ Includes(observers["M"], lastOp.target)
  /\ Includes(TopicsOf(lastOp.target), lastOp.arg[1])
  /\ Len(observers["M"]) = 4
  /\ Len(calls) = 4

(***************************************************************************)
(* C11 - C20                                                               *)
(***************************************************************************)
\* C11: mediator.next([sender, topic, payload]) invokes next([topic,
\* payload]) on exactly the registered receivers that are plain observers,
\* subscribers with the topic in their filter, or participants with the
\* topic in their filter and another participantId than the sender, in
\* insertion order (in a pass whose callbacks leave the collection alone).
C11_MediatorRouting ==
  (lastOp.op = "mediatorNext" /\ lastOp.unsub = {}) =>
    ReceiverCalls(calls) =
      OnePerEntry(EligibleIn(lastOp.before, lastOp.arg[1], lastOp.arg[2]),
                  "next", Tail(lastOp.arg))

C11_Witness ==
  /\ lastOp.op = "mediatorNext"
  /\ lastOp.unsub = {}
  /\ lastOp.arg = <<ParticipantIdOf("p1"), "B", "x">>
  /\ Len(lastOp.before) = 4
  /\ Len(ReceiverCalls(calls)) = 2
  /\ Count(calls, "s1", "next") = 1
  /\ Count(calls, "o1", "next") = 1

\* C12: publish([topic, payload]) reaches a receiver with a topic filter
\* only when the topic is in the filter, and reaches a receiver without a
\* filter for every topic (in a pass whose callbacks leave the collection
\* alone).
C12_PublishTopicFilter ==
  (lastOp.op = "mediatorPublish" /\ lastOp.unsub = {}) =>
    /\ ReceiverCalls(calls) =
         OnePerEntry(SelectSeq(lastOp.before,
                               LAMBDA r : r \in PlainObservers
                                          \/ Includes(TopicsOf(r), lastOp.arg[1])),
                     "next", lastOp.arg)
    /\ Len(calls) = Len(ReceiverCalls(calls))

C12_Witness ==
  /\ lastOp.op = "mediatorPublish"
  /\ lastOp.unsub = {}
  /\ lastOp.arg[1] = "C"
  /\ Includes(lastOp.before, "s1")
  /\ Includes(lastOp.before, "o1")
  /\ Count(calls, "s1", "next") = 0
  /\ Count(calls, "o1", "next") = 1

\* C13: P.publish([topic, payload]) invokes next([P.participantId, topic,
\* payload]) once on every mediator of P's tracked list, in the order of the
\* list, and on no other mediator; with an empty list (never linked, or the
\* link disposed) it invokes no mediator and does not raise.
C13_PublishToTracked ==
  [][lastOp'.op = "participantPublish" =>
       LET p == lastOp'.target
       IN /\ MediatorCalls(calls') =
               OnePerEntry(mediators[p], "next", <<ParticipantIdOf(p)>> \o lastOp'.arg)
          /\ ~fault'.raised
          /\ mediators' = mediators]_vars

C13_Witness ==
  /\ lastOp.op = "participantPublish"
  /\ Len(mediators[lastOp.target]) = 2
  /\ Len(MediatorCalls(calls)) = 2
  /\ \E h \in issued : h.kind = "sub" /\ h.owner = lastOp.target

\* C14: from an unlinked participant P and mediator M, mediator.subscribe(P)
\* and P.subscribe(M) end in the same state, with M once in P's tracked list
\* and P once in M's collection.
C14_LinkEitherWay ==
  [][(/\ lastOp'.op \in {"mediatorSubscribe", "participantSubscribe"}
      /\ LET m == IF lastOp'.op = "mediatorSubscribe" THEN lastOp'.target ELSE lastOp'.arg[1]
             p == IF lastOp'.op = "mediatorSubscribe" THEN lastOp'.arg[1] ELSE lastOp'.target
         IN p \in Participants /\ ~Includes(mediators[p], m) /\ ~Includes(observers[m], p))
     => LET m == IF lastOp'.op = "mediatorSubscribe" THEN lastOp'.target ELSE lastOp'.arg[1]
            p == IF lastOp'.op = "mediatorSubscribe" THEN lastOp'.arg[1] ELSE lastOp'.target
            viaMediator == TBaseMediator_subscribe(Machine, m, p).st
            viaParticipant == TAbstractParticipant_subscribe(Machine, p, m).st
        IN /\ observers' = viaMediator.obs /\ mediators' = viaMediator.med
           /\ observers' = viaParticipant.obs /\ mediators' = viaParticipant.med
           /\ Occurrences(mediators'[p], m) = 1
           /\ Occurrences(observers'[m], p) = 1]_vars

C14_Witness ==
  /\ lastOp.op = "participantSubscribe"
  /\ ~Includes(lastOp.before, lastOp.target)
  /\ Occurrences(observers[lastOp.arg[1]], lastOp.target) = 1
  /\ Occurrences(mediators[lastOp.target], lastOp.arg[1]) = 1

\* C15: disposing the disposable of participant.subscribe(mediator) removes
\* the mediator from the participant's tracked list and leaves every
\* mediator's collection as it was; a participant registered on the mediator
\* still receives the messages it is eligible for.
C15_LinkDisposeKeepsIntake ==
  [][(lastOp'.op = "dispose" /\ lastOp'.h.kind = "sub" /\ lastOp'.h.owner \in Participants)
     => LET p == lastOp'.h.owner
            m == lastOp'.h.item
            st == MachineOf(observers', mediators', subscription')
        IN /\ observers' = observers
           /\ mediators'[p] = WithoutFirst(mediators[p], m)
           /\ ~Includes(mediators'[p], m)
           /\ Includes(observers[m], p) =>
                \A msg \in Messages :
                  Includes(TopicsOf(p), msg[1]) =>
                    /\ CountNext(TBaseMediator_next(st, m, <<ExternalSender>> \o msg, {}).log, p, msg) = 1
                    /\ CountNext(TBasePublisher_publish(st, m, msg, {}).log, p, msg) = 1]_vars

C15_Witness ==
  /\ lastOp.op = "dispose"
  /\ lastOp.h.kind = "sub"
  /\ lastOp.h.owner \in Participants
  /\ Includes(lastOp.before, lastOp.h.item)
  /\ Includes(observers[lastOp.h.item], lastOp.h.owner)
  /\ Reached(Machine, lastOp.h.item, lastOp.h.owner)

\* C16: dispose() of the composite returned by mediator.subscribe(P) for an
\* already registered P removes P from the mediator's collection and the
\* mediator from P's tracked list; the composite reports isDisposed exactly
\* when the mediator-side subscription (the mediator's collection is empty)
\* and the participant-side subscription (P's tracked list is empty) both
\* report disposed.
C16_CompositeDisposable ==
  [][/\ (lastOp'.op = "dispose" /\ lastOp'.h.kind = "composite") =>
          /\ ~Includes(observers'[lastOp'.h.owner], lastOp'.h.item)
          /\ ~Includes(mediators'[lastOp'.h.item], lastOp'.h.owner)
          /\ observers'[lastOp'.h.owner] = WithoutFirst(observers[lastOp'.h.owner], lastOp'.h.item)
          /\ mediators'[lastOp'.h.item] = WithoutFirst(mediators[lastOp'.h.item], lastOp'.h.owner)
     /\ \A h \in issued' :
          h.kind = "composite" =>
            (IsDisposed(MachineOf(observers', mediators', subscription'), h)
               <=> (Len(observers'[h.owner]) = 0 /\ Len(mediators'[h.item]) = 0))]_vars

C16_Witness ==
  /\ lastOp.op = "dispose"
  /\ lastOp.h.kind = "composite"
  /\ Includes(lastOp.before, lastOp.h.item)
  /\ Len(observers[lastOp.h.owner]) = 0
  /\ Len(mediators[lastOp.h.item]) = 1
  /\ ~IsDisposed(Machine, lastOp.h)

\* C17 (as stated): the composite returned by a second mediator.subscribe(P) reports
\* isDisposed = FALSE while another receiver is registered on the mediator,
\* before and after its dispose(); it reports TRUE once, after its
\* dispose(), that receiver has unsubscribed and the mediator's collection
\* is empty; after its dispose() P.publish invokes the mediator's next zero
\* times.
C17_CompositeAmongOthers ==
  [][/\ \A h \in issued' :
          (/\ h.kind = "composite"
           /\ \E r \in MedReceivers \ {h.item} : Includes(observers'[h.owner], r))
          => ~IsDisposed(MachineOf(observers', mediators', subscription'), h)
     /\ (/\ lastOp.op = "dispose" /\ lastOp.h.kind = "composite"
         /\ lastOp'.op = "unsubscribe"
         /\ Len(observers[lastOp.h.owner]) > 0
         /\ Len(observers'[lastOp.h.owner]) = 0)
        => IsDisposed(MachineOf(observers', mediators', subscription'), lastOp.h)
     /\ (lastOp'.op = "dispose" /\ lastOp'.h.kind = "composite") =>
          \A msg \in Messages :
            Count(TAbstractParticipant_publish(MachineOf(observers', mediators', subscription'),
                                               lastOp'.h.item, msg, {}).log,
                  lastOp'.h.owner, "next") = 0]_vars

\* C17 (amended): as above, but once the other receiver has unsubscribed and
\* the mediator's collection is empty the composite reports TRUE exactly when
\* P's tracked list is empty too, i.e. P tracks no other mediator.
C17_CompositeAmongOthersLinked ==
  [][/\ \A h \in issued' :
          (/\ h.kind = "composite"
           /\ \E r \in MedReceivers \ {h.item} : Includes(observers'[h.owner], r))
          => ~IsDisposed(MachineOf(observers', mediators', subscription'), h)
     /\ (/\ lastOp.op = "dispose" /\ lastOp.h.kind = "composite"
         /\ lastOp'.op = "unsubscribe"
         /\ Len(observers[lastOp.h.owner]) > 0
         /\ Len(observers'[lastOp.h.owner]) = 0)
        => (IsDisposed(MachineOf(observers', mediators', subscription'), lastOp.h)
              <=> \A m \in Mediators : ~Includes(mediators'[lastOp.h.item], m))
     /\ (lastOp'.op = "dispose" /\ lastOp'.h.kind = "composite") =>
          \A msg \in Messages :
            Count(TAbstractParticipant_publish(MachineOf(observers', mediators', subscription'),
                                               lastOp'.h.item, msg, {}).log,
                  lastOp'.h.owner, "next") = 0]_vars

C17_Witness ==
  /\ lastOp.op = "unsubscribe"
  /\ lastOp.h.kind = "sub"
  /\ lastOp.h.owner \in Mediators
  /\ Len(observers[lastOp.h.owner]) = 0
  /\ \E p \in Participants :
       /\ [kind |-> "composite", owner |-> lastOp.h.owner, item |-> p] \in issued
       /\ IsDisposed(Machine, [kind |-> "composite", owner |-> lastOp.h.owner, item |-> p])

\* C18: mediator.error(err) invokes no callback of any receiver and leaves
\* the mediator's collection, every participant's tracked list and every
\* observer's subscription as they were.
C18_MediatorErrorIsLocal ==
  [][lastOp'.op = "mediatorError" =>
       /\ calls' = <<>>
       /\ observers' = observers
       /\ mediators' = mediators
       /\ subscription' = subscription]_vars

C18_Witness ==
  /\ lastOp.op = "mediatorError"
  /\ Len(observers[lastOp.target]) >= 2
  /\ \E p \in Participants : Includes(mediators[p], lastOp.target)
  /\ calls = <<>>

\* C19: onError(err) and complete() invoke error(err) / complete() exactly
\* once on every receiver registered on the emitter, whatever topic filter
\* the receiver declares.
C19_BroadcastReachesAll ==
  (lastOp.op \in {"onError", "complete"} /\ NoDuplicates(lastOp.before)) =>
    calls = OnePerEntry(lastOp.before,
                        IF lastOp.op = "onError" THEN "error" ELSE "complete",
                        lastOp.arg)

\* C20: when a receiver's next raises during publish / mediator.next, the
\* call ends with the exception, the receivers before the raising one have
\* been notified once each, the ones after it not at all, and the
\* collection is as it was.
C20_DeliveryFault ==
  /\ lastOp.op = "publish" =>
       /\ fault.raised <=> FirstThrower(lastOp.before, fault.throws) > 0
       /\ calls = UpToFirstThrower(lastOp.before, fault.throws, lastOp.arg)
       /\ observers[lastOp.target] = lastOp.before
  /\ lastOp.op = "mediatorNext" =>
       LET eligible == EligibleIn(lastOp.before, lastOp.arg[1], lastOp.arg[2])
       IN /\ fault.raised <=> FirstThrower(eligible, fault.throws) > 0
          /\ ReceiverCalls(calls) = UpToFirstThrower(eligible, fault.throws, Tail(lastOp.arg))
          /\ observers[lastOp.target] = lastOp.before

C20_Witness ==
  /\ lastOp.op = "publish"
  /\ fault.raised
  /\ Len(lastOp.before) = 3
  /\ Len(calls) = 2
  /\ calls[1].rcv # calls[2].rcv

(***************************************************************************)
(* C21: AbstractDisposable.dispose() is idempotent.  Whatever calls were   *)
(* made, onDispose of an object has run at most once; the object reports   *)
(* isDisposed = FALSE as long as dispose() was never called on it and      *)
(* TRUE once it was; and no step takes isDisposed from TRUE back to FALSE. *)
(***************************************************************************)
C21_DisposeIdempotent ==
  [][\A d \in AbstractDisposables :
       /\ heap'.onDisposeRuns[d] <= 1
       /\ heap'.isDisposed[d] <=> heap'.disposeCalls[d] > 0
       /\ heap.isDisposed[d] => heap'.isDisposed[d]]_vars

\* dispose() was called twice on an object whose onDispose ran once.
C21_Witness ==
  /\ lastCall.op = "dispose"
  /\ heap.disposeCalls[lastCall.target] >= 2
  /\ heap.onDisposeRuns[lastCall.target] = 1
  /\ heap.isDisposed[lastCall.target]

(***************************************************************************)
(* C22: resources are released exactly once even when callback code        *)
(* raises.  A dispose() that ends with the exception of onDispose leaves   *)
(* the object disposed, and no later call runs onDispose of a disposed     *)
(* object again.  When the callback of using(d, cb) or pool.use(cb) raises *)
(* the call has called dispose() on d / the pool exactly once, d / the     *)
(* pool is disposed with onDispose run once in all (the pooled resources   *)
(* disposed once each), and the call ends with the callback's exception.   *)
(***************************************************************************)
C22_ReleasedOnceOnFault ==
  [][LET t == lastCall'.target
     IN /\ \A d \in AbstractDisposables :
             heap.isDisposed[d] => heap'.onDisposeRuns[d] = heap.onDisposeRuns[d]
        /\ (lastCall'.op = "dispose" /\ lastCall'.raised # NoEx) => heap'.isDisposed[t]
        /\ (/\ lastCall'.op \in {"using", "use"}
            /\ lastCall'.cbRuns > 0
            /\ lastCall'.cb.throws)
           => /\ heap'.isDisposed[t]
              /\ heap'.disposeCalls[t] = heap.disposeCalls[t] + 1
              /\ heap'.onDisposeRuns[t] = 1
              /\ lastCall'.raised = Err("callback")
              /\ lastCall'.op = "use" =>
                   \A k \in 1..Len(PoolKeys(t)) :
                     /\ heap'.isDisposed[PoolKeys(t)[k]]
                     /\ heap'.disposeCalls[PoolKeys(t)[k]] = 1]_vars

\* using(d2, cb): the callback raised, onDispose of d2 raised as well; d2
\* is disposed and the caller got the callback's exception.
C22_Witness ==
  /\ lastCall.op = "using"
  /\ lastCall.target = "d2"
  /\ lastCall.cb.throws
  /\ lastCall.raised = Err("callback")
  /\ heap.isDisposed["d2"]
  /\ heap.disposeCalls["d2"] = 1

(***************************************************************************)
(* C23: the disposed-object-used fault.  A call guarded by                 *)
(* assertNotDisposed (pool.use, Fibonacci.continueSequence) ends with      *)
(* ObjectDisposedException exactly when its object was disposed at the     *)
(* time of the call; in that case no callback was invoked and no field of  *)
(* any object changed.  A dispose() of an object that is already disposed  *)
(* ends without an exception.                                              *)
(***************************************************************************)
C23_DisposedObjectFault ==
  [][LET t == lastCall'.target
     IN /\ lastCall'.op \in {"use", "continueSequence"} =>
             /\ (lastCall'.raised = ObjectDisposedException(t)) <=> heap.isDisposed[t]
             /\ lastCall'.raised.kind = "ObjectDisposedException" => lastCall'.raised.by = t
             /\ heap.isDisposed[t] => (lastCall'.cbRuns = 0 /\ heap' = heap)
             /\ (~heap.isDisposed[t] /\ lastCall'.op = "continueSequence") =>
                  (lastCall'.raised = NoEx /\ heap'.items[t] > heap.items[t])
        /\ (lastCall'.op = "dispose" /\ heap.isDisposed[t]) => lastCall'.raised = NoEx]_vars

\* pool.use(callback) on the disposed pool ended with the exception and the
\* callback did not run.
C23_Witness ==
  /\ lastCall.op = "use"
  /\ lastCall.raised = ObjectDisposedException("pool")
  /\ lastCall.cbRuns = 0
  /\ heap.isDisposed["pool"]
  /\ heap.disposeCalls["pool"] = 1

(***************************************************************************)
(* C24: pool.use(callback) on a pool that is not disposed invokes the      *)
(* callback once, and during it the pool and every pooled resource report  *)
(* isDisposed = FALSE; when use is over the pool reports isDisposed =      *)
(* TRUE, pool.resources is undefined, and dispose() has been called on     *)
(* every pooled resource.                                                  *)
(***************************************************************************)
C24_PoolUse ==
  [][(lastCall'.op = "use" /\ ~heap.isDisposed[lastCall'.target]) =>
       LET p == lastCall'.target
       IN /\ lastCall'.cbRuns = 1
          /\ lastCall'.seen = {}
          /\ heap'.isDisposed[p]
          /\ ~heap'.poolDisposables[p]
          /\ \A k \in 1..Len(PoolKeys(p)) :
               /\ heap'.disposeCalls[PoolKeys(p)[k]] = heap.disposeCalls[PoolKeys(p)[k]] + 1
               /\ heap'.isDisposed[PoolKeys(p)[k]]]_vars

\* pool.use(callback) returned normally: the callback ran and the pool and
\* its resources are disposed.
C24_Witness ==
  /\ lastCall.op = "use"
  /\ lastCall.cbRuns = 1
  /\ lastCall.raised = NoEx
  /\ heap.isDisposed["pool"]
  /\ heap.isDisposed["a"] /\ heap.isDisposed["b"]
  /\ ~heap.poolDisposables["pool"]

\* The faults a batch dispose(args) is to report, given the fields h before
\* the call: one per argument whose onDispose raises, unless that object was
\* disposed before the call or earlier in the batch.
RECURSIVE ExpectedFaults(_, _, _)
ExpectedFaults(h, args, i) ==
  IF i > Len(args)
    THEN <<>>
    ELSE LET x == args[i]
             fails == /\ ThrowOnDispose(x)
                      /\ ~h.isDisposed[x]
                      /\ \A j \in 1..(i - 1) : args[j] # x
         IN (IF fails THEN <<Err(x)>> ELSE <<>>) \o ExpectedFaults(h, args, i + 1)

(***************************************************************************)
(* C25: batch disposal dispose(d1, ..., dn) calls dispose() on every di in *)
(* argument order, also after one of them raised, ends without an          *)
(* exception, and returns the list of the faults of the failing resources  *)
(* in argument order, one each, or undefined when none failed.             *)
(***************************************************************************)
C25_BatchDispose ==
  [][lastCall'.op = "batch" =>
       LET args == lastCall'.args
           expected == ExpectedFaults(heap, args, 1)
       IN /\ lastCall'.order = args
          /\ lastCall'.raised = NoEx
          /\ \A k \in 1..Len(args) : heap'.isDisposed[args[k]]
          /\ lastCall'.ret.defined <=> Len(expected) > 0
          /\ lastCall'.ret.defined => lastCall'.ret.list = expected]_vars

\* dispose(d2, d1, d3) returned the faults of d2 and d3, and d1 was disposed
\* after d2 had raised.
C25_Witness ==
  /\ lastCall.op = "batch"
  /\ lastCall.args = <<"d2", "d1", "d3">>
  /\ lastCall.ret = [defined |-> TRUE, list |-> <<Err("d2"), Err("d3")>>]
  /\ heap.isDisposed["d1"]
  /\ heap.onDisposeRuns["d1"] = 1

(***************************************************************************)
(* C26: using(d, callback) with a callback that returns invokes the        *)
(* callback once, with d reporting isDisposed = FALSE if d was not         *)
(* disposed before the call; it returns the callback's result, and by then *)
(* it has called d.dispose() exactly once.  An exception raised by that    *)
(* dispose() does not reach the caller and does not replace the result.    *)
(***************************************************************************)
C26_Using ==
  [][(lastCall'.op = "using" /\ ~lastCall'.cb.throws) =>
       LET d == lastCall'.target
       IN /\ lastCall'.cbRuns = 1
          /\ ~heap.isDisposed[d] => d \notin lastCall'.seen
          /\ lastCall'.raised = NoEx
          /\ lastCall'.result = lastCall'.cb.result
          /\ lastCall'.order = <<d>>
          /\ heap'.disposeCalls[d] = heap.disposeCalls[d] + 1
          /\ heap'.isDisposed[d]]_vars

\* using(d2, callback) returned the callback's result although onDispose of
\* d2 raised.
C26_Witness ==
  /\ lastCall.op = "using"
  /\ lastCall.target = "d2"
  /\ lastCall.result = "res"
  /\ lastCall.raised = NoEx
  /\ lastCall.seen = {}
  /\ heap.onDisposeRuns["d2"] = 1
  /\ heap.disposeCalls["d2"] = 1

(***************************************************************************)
(* C27: invariant of every emitter: a receiver appears at most once in the *)
(* emitter's collection.                                                   *)
(***************************************************************************)
C27_AtMostOncePerEmitter == \A e \in Emitters : NoDuplicates(observers[e])

(***************************************************************************)
(* C28: TBaseObservable.subscribe(r) appends r at the end of the           *)
(* collection whether or not r is in it already, and the dispose() of a    *)
(* subscription removes the first occurrence of its receiver only.  When r *)
(* was in the collection twice, one dispose() leaves one entry for r, and  *)
(* the publish that follows invokes r.next once.                           *)
(***************************************************************************)
C28_AppendAndRemoveFirst ==
  [][LET e == lastOp'.target
     IN /\ lastOp'.op = "subscribe" =>
             observers'[e] = Append(observers[e], lastOp'.arg[1])
        /\ (lastOp'.op = "dispose" /\ lastOp'.h.kind = "sub" /\ e \in Observables) =>
             /\ observers'[e] = WithoutFirst(observers[e], lastOp'.h.item)
             /\ Occurrences(observers[e], lastOp'.h.item) = 2 =>
                  Occurrences(observers'[e], lastOp'.h.item) = 1
        /\ (/\ lastOp.op = "dispose" /\ lastOp.h.kind = "sub"
            /\ Occurrences(lastOp.before, lastOp.h.item) = 2
            /\ lastOp'.op = "publish" /\ e = lastOp.target /\ lastOp'.unsub = {})
           => /\ Occurrences(observers[e], lastOp.h.item) = 1
              /\ CountNext(calls', lastOp.h.item, lastOp'.arg) = 1]_vars

\* r1 was in the collection twice and one dispose() of its subscription
\* left one entry for it.
C28_Witness ==
  /\ lastOp.op = "dispose"
  /\ lastOp.h = Sub("O", "r1")
  /\ Occurrences(lastOp.before, "r1") = 2
  /\ Occurrences(observers["O"], "r1") = 1

(***************************************************************************)
(* C29: an observer tracks the subscription of its latest                  *)
(* subscribe(observable) only.  subscribe appends the observer to that     *)
(* observable and leaves every other collection as it was, so the observer *)
(* stays registered where it subscribed before; unsubscribe() removes the  *)
(* observer from the observable of the tracked subscription and from no    *)
(* other, and with no tracked subscription it changes nothing and does not *)
(* raise; a publish of an observable invokes next on the observer once per *)
(* entry it has there, whichever subscription it tracks.                   *)
(***************************************************************************)
C29_TracksLatestOnly ==
  [][/\ lastOp'.op = "observerSubscribe" =>
          LET e == lastOp'.target
              r == lastOp'.arg[1]
          IN /\ subscription'[r] = Sub(e, r)
             /\ observers'[e] = Append(observers[e], r)
             /\ \A e2 \in Emitters \ {e} : observers'[e2] = observers[e2]
     /\ lastOp'.op = "unsubscribe" =>
          LET r == lastOp'.target
              h == subscription[r]
          IN /\ ~fault'.raised
             /\ h = None => observers' = observers
             /\ h # None =>
                  /\ observers'[h.owner] = WithoutFirst(observers[h.owner], r)
                  /\ \A e2 \in Emitters \ {h.owner} : observers'[e2] = observers[e2]
     /\ lastOp'.op = "publish" =>
          \A r \in TwoTrackers :
            CountNext(calls', r, lastOp'.arg) = Occurrences(observers[lastOp'.target], r)]_vars

\* r1 subscribed to O and then to O2; its unsubscribe() removed it from O2
\* and it is still registered on O.
C29_Witness ==
  /\ lastOp.op = "unsubscribe"
  /\ lastOp.target = "r1"
  /\ lastOp.h = Sub("O2", "r1")
  /\ observers["O"] = <<"r1">>
  /\ ~Includes(observers["O2"], "r1")
  /\ subscription["r1"] = Sub("O2", "r1")

(***************************************************************************)
(* C30: during a publish pass over a collection without duplicates in      *)
(* which the next of one receiver disposes the subscription of another:    *)
(* when the other receiver comes later in the collection it does not       *)
(* receive the value of the pass; when it comes earlier (it was visited    *)
(* already) the pass notifies every receiver of the collection once, as a  *)
(* pass without the removal does.                                          *)
(***************************************************************************)
C30_RemovalDuringPass ==
  (/\ lastOp.op = "publishRemoving"
   /\ NoDuplicates(lastOp.before)
   /\ \E by \in lastOp.unsub : Includes(lastOp.before, by)
   /\ Includes(lastOp.before, lastOp.h.item)) =>
    LET by == CHOOSE r \in lastOp.unsub : TRUE
        i == IndexOf(lastOp.before, by)
        j == IndexOf(lastOp.before, lastOp.h.item)
    IN /\ j > i => CountNext(calls, lastOp.h.item, lastOp.arg) = 0
       /\ j < i => calls = OnePerEntry(lastOp.before, "next", lastOp.arg)

(***************************************************************************)
(* C31: a mediator forwards every topic it is given.  Its own topics       *)
(* attribute is the empty list, and still mediator.next([sender, topic,    *)
(* payload]) invokes next on every eligible receiver of its collection,    *)
(* for each topic; what a receiver gets is the pair [topic, payload] of    *)
(* the message, without the sender (in a pass whose callbacks leave the    *)
(* collection alone).                                                      *)
(***************************************************************************)
C31_ForwardsEveryTopic ==
  (lastOp.op = "mediatorNext" /\ lastOp.unsub = {}) =>
    LET m == lastOp.target
        sender == lastOp.arg[1]
        topic == lastOp.arg[2]
        payload == lastOp.arg[3]
        got == ReceiverCalls(calls)
    IN /\ TopicsOf(m) = <<>>
       /\ \A r \in MedReceivers :
            (Includes(lastOp.before, r) /\ Eligible(r, sender, topic)) =>
              CountNext(calls, r, <<topic, payload>>) = 1
       /\ \A k \in 1..Len(got) : got[k].kind = "next" /\ got[k].arg = <<topic, payload>>

\* A message of topic B from outside the mediator went to the plain observer,
\* to s1 and to p1 as the pair [B, x], and not to p2, whose filter is [A].
C31_Witness ==
  /\ lastOp.op = "mediatorNext"
  /\ lastOp.unsub = {}
  /\ lastOp.arg = <<ExternalSender, "B", "x">>
  /\ CountNext(calls, "o1", <<"B", "x">>) = 1
  /\ CountNext(calls, "s1", <<"B", "x">>) = 1
  /\ CountNext(calls, "p1", <<"B", "x">>) = 1
  /\ Count(calls, "p2", "next") = 0

(***************************************************************************)
(* C32: mediator.subscribe(r) terminates and returns a disposable for      *)
(* every structural kind of receiver r: a plain observer, a subscriber, a  *)
(* participant (new or already present) and another mediator.              *)
(***************************************************************************)
C32_SubscribeTerminates ==
  lastOp.op = "mediatorSubscribe" => (~fault.raised /\ lastOp.ret # None)

(***************************************************************************)
(* C33: a publish pass during which the next of a receiver subscribes a    *)
(* receiver (another one, or itself again) to the publishing observable    *)
(* terminates, and it notifies the receivers that were registered when the *)
(* pass started and no other: one next per entry of the collection as it   *)
(* was at the start.                                                       *)
(***************************************************************************)
C33_PassOverStartingReceivers ==
  lastOp.op = "publishAdding" =>
    /\ running
    /\ ~fault.raised
    /\ calls = OnePerEntry(lastOp.before, "next", lastOp.arg)

(***************************************************************************)
(* C34: isDisposed of a subscription is monotone: a subscription that      *)
(* reports isDisposed = TRUE reports TRUE after every later call as well,  *)
(* whatever is subscribed to its emitter afterwards.                       *)
(***************************************************************************)
C34_DisposedIsMonotone ==
  [][\A h \in issued :
       (h.kind = "sub" /\ h.owner \in Observables
          /\ IsDisposed(MachineOf(observers, mediators, subscription), h))
       => IsDisposed(MachineOf(observers', mediators', subscription'), h)]_vars

(***************************************************************************)
(* C35: a stale handle revokes nothing.  dispose() on a subscription whose *)
(* registration was gone already (by its own dispose or by complete)       *)
(* leaves the collection as it is, also when the same receiver was         *)
(* subscribed to the emitter again in between: the newer registration      *)
(* stays.                                                                  *)
(***************************************************************************)
C35_StaleHandleRevokesNothing ==
  [][lastOp'.op = "disposeStale" =>
       /\ observers' = observers
       /\ Includes(observers'[lastOp'.target], lastOp'.h.item)]_vars

(***************************************************************************)
(* C36: link consistency.  In every reachable state, a mediator that is in *)
(* a participant's tracked mediator list has that participant in its       *)
(* collection.                                                             *)
(***************************************************************************)
C36_LinkConsistency ==
  \A p \in Participants, m \in Mediators :
    Includes(mediators[p], m) => Includes(observers[m], p)

(***************************************************************************)
(* C37: relinking.  When M is not in P's tracked list while P is still in  *)
(* M's collection, P.subscribe(M) terminates with a disposable, M is in    *)
(* P's list exactly once afterwards, M's collection is as before with      *)
(* exactly one entry for P, and a P.publish invokes M.next once.           *)
(***************************************************************************)
C37_Relink ==
  [][(/\ lastOp'.op \in {"relink", "participantSubscribe"}
      /\ ~Includes(mediators[lastOp'.target], lastOp'.arg[1])
      /\ Includes(observers[lastOp'.arg[1]], lastOp'.target)) =>
       LET p == lastOp'.target
           m == lastOp'.arg[1]
           st == MachineOf(observers', mediators', subscription')
       IN /\ ~fault'.raised
          /\ lastOp'.ret = Sub(p, m)
          /\ Occurrences(mediators'[p], m) = 1
          /\ Occurrences(observers'[m], p) = 1
          /\ observers'[m] = observers[m]
          /\ \A msg \in Messages :
               Count(TAbstractParticipant_publish(st, p, msg, {}).log, m, "next") = 1]_vars

\* p1 is linked to M again after its link was disposed while it stayed in
\* M's collection.
C37_Witness ==
  /\ lastOp.op = "relink"
  /\ lastOp.target = "p1"
  /\ lastOp.arg = <<"M">>
  /\ Occurrences(lastOp.before, "p1") = 1
  /\ Occurrences(observers["M"], "p1") = 1
  /\ Occurrences(mediators["p1"], "M") = 1

(***************************************************************************)
(* C38: the dispose() of a subscription affects its own receiver only.     *)
(* The other receivers of the collection are all still there, in the same  *)
(* relative order; at most one entry is gone; no other collection changes; *)
(* and the disposal invokes no receiver callback.                          *)
(***************************************************************************)
C38_DisposeFrame ==
  [][(lastOp'.op = "dispose" /\ lastOp'.h.kind = "sub") =>
       LET e == lastOp'.h.owner
           r == lastOp'.h.item
           Others(s) == SelectSeq(s, LAMBDA x : x # r)
       IN /\ Others(ArrayOf(MachineOf(observers', mediators', subscription'), e))
               = Others(ArrayOf(MachineOf(observers, mediators, subscription), e))
          /\ Len(ArrayOf(MachineOf(observers', mediators', subscription'), e))
               >= Len(ArrayOf(MachineOf(observers, mediators, subscription), e)) - 1
          /\ \A e2 \in Emitters \ {e} : observers'[e2] = observers[e2]
          /\ calls' = <<>>]_vars

\* The subscription of r2 was disposed in a collection of three receivers:
\* the other two are left, in order, and nothing was invoked.
C38_Witness ==
  /\ lastOp.op = "dispose"
  /\ lastOp.h = Sub("O", "r2")
  /\ lastOp.before = <<"r1", "r2", "r3">>
  /\ observers["O"] = <<"r1", "r3">>
  /\ calls = <<>>

(***************************************************************************)
(* C39: pool.dispose().  On a pool that is not disposed it calls dispose() *)
(* on every pooled resource in key order, also after one of them raised,   *)
(* ends without an exception, and leaves the pool disposed with            *)
(* pool.resources undefined.  On a disposed pool it calls dispose() on no  *)
(* resource and ends without an exception.                                 *)
(***************************************************************************)
C39_PoolDispose ==
  [][(lastCall'.op = "dispose" /\ lastCall'.target \in Pools) =>
       LET p == lastCall'.target
       IN /\ lastCall'.raised = NoEx
          /\ heap'.isDisposed[p]
          /\ ~heap'.poolDisposables[p]
          /\ ~heap.isDisposed[p] =>
               /\ lastCall'.order = <<p>> \o PoolKeys(p)
               /\ \A k \in 1..Len(PoolKeys(p)) : heap'.isDisposed[PoolKeys(p)[k]]
          /\ heap.isDisposed[p] =>
               /\ lastCall'.order = <<p>>
               /\ \A k \in 1..Len(PoolKeys(p)) :
                    heap'.disposeCalls[PoolKeys(p)[k]] = heap.disposeCalls[PoolKeys(p)[k]]]_vars

\* The pool was disposed twice: onDispose of t raised the first time, b was
\* disposed after it, and every resource had dispose() called once.
C39_Witness ==
  /\ lastCall.op = "dispose"
  /\ lastCall.target = "pool"
  /\ heap.disposeCalls["pool"] = 2
  /\ heap.onDisposeRuns["pool"] = 1
  /\ heap.onDisposeRuns["t"] = 1
  /\ heap.disposeCalls["a"] = 1 /\ heap.disposeCalls["t"] = 1 /\ heap.disposeCalls["b"] = 1
  /\ heap.isDisposed["b"]
====
